---- MODULE Spec2Model ----
(***************************************************************************)
(* Local digital twins: the things storage with its per-thing              *)
(* synchronization ledger (internal/persistence), the command handler      *)
(* (internal/commands) and the synchronizer (internal/sync, cmd/twins).    *)
(*                                                                         *)
(* The storage is modelled at the granularity of the bbolt transactions    *)
(* its operations are made of: every Database call (GetAs, SetAs,          *)
(* SetAllAs, UpdateAllAs, Delete, ...) is one transaction, a ThingsStorage *)
(* operation is a sequence of them with no lock around the sequence.       *)
(***************************************************************************)
EXTENDS Integers, Sequences, FiniteSets, TLC

\* ------------------------------------------------------------------------
\* Domains
\* ------------------------------------------------------------------------

\* the thing identifiers and feature identifiers commands are issued for
ThingIDs == {"t1"}
FeatureIDs == {"f1", "f2"}

\* a properties / desiredProperties map: the nil map, the empty map, a
\* non-empty map
PropVals == {"nil", "empty", "a"}

\* thing attributes: nil or some map
AttrVals == {"nil", "a"}

\* the ledger revision is an int64; operations that bump it are cut off here
MaxRev == 1

\* the processes that call the storage concurrently
Procs == {"p1", "p2"}

\* ------------------------------------------------------------------------
\* Persisted data (internal/persistence/data/data.go)
\* ------------------------------------------------------------------------

\* a stored or in-memory feature; present = FALSE: no such key / no such entry
Feature(p, d) == [present |-> TRUE, props |-> p, desired |-> d]

NoFeature == [present |-> FALSE, props |-> "nil", desired |-> "nil"]

NoFeatures == [f \in FeatureIDs |-> NoFeature]

NoUnsync == [f \in FeatureIDs |-> 0]

\* the ledger; unsync[f] = 0 stands for "f is not a key of the map"
SystemThingData(r, del, uns) ==
    [present |-> TRUE, rev |-> r, deleted |-> del, unsync |-> uns]

\* the result of loading a ledger key that does not exist
NoSystemThingData ==
    [present |-> FALSE, rev |-> 0, deleted |-> {}, unsync |-> NoUnsync]

ThingData(a) == [present |-> TRUE, attrs |-> a]

NoThingData == [present |-> FALSE, attrs |-> "nil"]

\* the keys of the unsynchronized features map
UnsyncKeys(sys) == {f \in FeatureIDs : sys.unsync[f] > 0}

\* the bucket of the database after NewThingsDB on a fresh file
EmptyDB ==
    [ids   |-> {},
     thing |-> [t \in ThingIDs |-> NoThingData],
     sys   |-> [t \in ThingIDs |-> NoSystemThingData],
     feat  |-> [t \in ThingIDs |-> NoFeatures]]

\* ------------------------------------------------------------------------
\* Storage helpers, each one bbolt transaction or a piece of in-memory code
\* ------------------------------------------------------------------------

\* GetAs(SystemThingKey(thingID)); present = FALSE is ErrThingNotFound
loadSystemThingData(d, t) == d.sys[t]

\* a faulty updateSystemThingData: only the timestamp is set
updateSystemThingDataTimestampOnly(sys) == sys

\* the in-memory bump of the loaded ledger (the timestamp is not modelled)
updateSystemThingData(sys) == [sys EXCEPT !.rev = @ + 1]

\* a faulty putFeatureData: the counter starts again at 1
putFeatureDataCountsOnce(sys, f) ==
    [sys EXCEPT !.deleted = @ \ {f}, !.unsync[f] = 1]

\* a faulty putFeatureData: the feature stays in deletedFeatures
putFeatureDataKeepsDeleted(sys, f) == [sys EXCEPT !.unsync[f] = @ + 1]

\* the in-memory ledger update for one stored feature
putFeatureData(sys, f) ==
    [sys EXCEPT !.deleted = @ \ {f}, !.unsync[f] = @ + 1]

\* SetAllAs of the feature key and the ledger key, in one transaction
persistFeature(d, t, f, v, sys) ==
    [d EXCEPT !.feat[t][f] = v, !.sys[t] = putFeatureData(sys, f)]

\* GetAllAs(FeaturesKeyPrefix(thingID)): the ids of the stored features
prevFeatures(d, t) == {f \in FeatureIDs : d.feat[t][f].present}

\* a faulty persistThingData: unsynchronizedFeatures is not cleared
thingLedgerKeepsCounters(sys, prev, features) ==
    LET new == {f \in FeatureIDs : features[f].present}
    IN  [sys EXCEPT !.deleted = (@ \cup prev) \ new,
                    !.unsync = [f \in FeatureIDs |-> IF f \in new THEN @[f] + 1 ELSE @[f]]]

\* the ledger persistThingData computes from the loaded ledger, the stored
\* feature ids it read and the features of the new thing
thingLedger(sys, prev, features) ==
    LET new == {f \in FeatureIDs : features[f].present}
    IN  [sys EXCEPT !.deleted = (@ \cup prev) \ new,
                    !.unsync = [f \in FeatureIDs |-> IF f \in new THEN 1 ELSE 0]]

\* UpdateAllAs(FeaturesKeyPrefix(thingID), persistData): every feature key of
\* the thing is deleted, then thing data, ledger and features are put
persistAll(d, t, attrs, sys, features) ==
    [d EXCEPT !.thing[t] = ThingData(attrs), !.sys[t] = sys, !.feat[t] = features]

\* GetAs(IDSeparator) followed by SetAs(IDSeparator) of the changed set
updateThingIDs(d, ids, t, isPresent) ==
    [d EXCEPT !.ids = IF isPresent THEN ids \cup {t} ELSE ids \ {t}]

\* the ledger AddThing starts from: the loaded one, or a new one when the
\* thing data or the ledger is missing
initialLedger(d, t, revision) ==
    IF d.thing[t].present /\ d.sys[t].present
    THEN d.sys[t]
    ELSE SystemThingData(revision - 1, {}, NoUnsync)

\* ------------------------------------------------------------------------
\* ThingsStorage operations run alone (no other storage call in between).
\* Each yields the database after the call and the returned values.
\* ------------------------------------------------------------------------

Result(d, e, v) == [db |-> d, err |-> e, val |-> v]

\* thing = [attrs, features, revision]; returns the ledger revision
AddThing(d, t, thing) ==
    LET sys == thingLedger(updateSystemThingData(initialLedger(d, t, thing.revision)),
                           prevFeatures(d, t), thing.features)
        d1  == persistAll(d, t, thing.attrs, sys, thing.features)
    IN  Result(updateThingIDs(d1, d1.ids, t, TRUE), "", sys.rev)

\* returns the unsynchronized counter of the feature
AddFeature(d, t, f, v) ==
    LET sys == loadSystemThingData(d, t)
    IN  IF ~sys.present THEN Result(d, "ThingNotFound", -1)
        ELSE LET d1 == persistFeature(d, t, f, v, updateSystemThingData(sys))
             IN  Result(d1, "", d1.sys[t].unsync[f])

\* a faulty RemoveFeature: the bumped ledger is persisted before the
\* feature is looked up
RemoveFeaturePersistsLedger(d, t, f) ==
    LET sys == loadSystemThingData(d, t)
    IN  IF ~sys.present THEN Result(d, "ThingNotFound", 0)
        ELSE IF ~d.feat[t][f].present
        THEN Result([d EXCEPT !.sys[t] = updateSystemThingData(sys)], "FeatureNotFound", 0)
        ELSE LET s1 == updateSystemThingData(sys)
                 s2 == [s1 EXCEPT !.deleted = @ \cup {f}, !.unsync[f] = 0]
             IN  Result([d EXCEPT !.feat[t][f] = NoFeature, !.sys[t] = s2], "", 0)

\* a faulty RemoveFeature: the unsynchronized entry of the feature stays
RemoveFeatureKeepsCounter(d, t, f) ==
    LET sys == loadSystemThingData(d, t)
    IN  IF ~sys.present THEN Result(d, "ThingNotFound", 0)
        ELSE IF ~d.feat[t][f].present THEN Result(d, "FeatureNotFound", 0)
        ELSE LET s1 == updateSystemThingData(sys)
                 s2 == [s1 EXCEPT !.deleted = @ \cup {f}]
             IN  Result([d EXCEPT !.feat[t][f] = NoFeature, !.sys[t] = s2], "", 0)

RemoveFeature(d, t, f) ==
    LET sys == loadSystemThingData(d, t)
    IN  IF ~sys.present THEN Result(d, "ThingNotFound", 0)
        ELSE IF ~d.feat[t][f].present THEN Result(d, "FeatureNotFound", 0)
        ELSE LET s1 == updateSystemThingData(sys)
                 s2 == [s1 EXCEPT !.deleted = @ \cup {f}, !.unsync[f] = 0]
             IN  Result([d EXCEPT !.feat[t][f] = NoFeature, !.sys[t] = s2], "", 0)

\* a faulty ThingSynchronized: the deleted features stay in the ledger
ThingSynchronizedKeepsDeleted(d, t, revision) ==
    LET sys == loadSystemThingData(d, t)
    IN  IF ~sys.present THEN Result(d, "ThingNotFound", 0)
        ELSE IF revision = sys.rev
        THEN Result([d EXCEPT !.sys[t] = [sys EXCEPT !.unsync = NoUnsync]], "", 1)
        ELSE Result(d, "", 0)

\* val = 1: synchronized, val = 0: the revision did not match
ThingSynchronized(d, t, revision) ==
    LET sys == loadSystemThingData(d, t)
    IN  IF ~sys.present THEN Result(d, "ThingNotFound", 0)
        ELSE IF revision = sys.rev
        THEN Result([d EXCEPT !.sys[t] = [sys EXCEPT !.deleted = {}, !.unsync = NoUnsync]],
                    "", 1)
        ELSE Result(d, "", 0)

\* a faulty FeatureSynchronized: a deleted feature stays in the ledger
featureSynchronizedLedgerKeepsDeleted(sys, f) ==
    IF sys.unsync[f] = 0 THEN sys ELSE [sys EXCEPT !.unsync[f] = 0]

\* the ledger FeatureSynchronized writes back
featureSynchronizedLedger(sys, f) ==
    IF sys.unsync[f] = 0
    THEN [sys EXCEPT !.deleted = @ \ {f}]
    ELSE [sys EXCEPT !.unsync[f] = 0]

\* whether FeatureSynchronized reaches its SetAs
featureSynchronizedWrites(sys, f, revision) ==
    IF sys.unsync[f] = 0 THEN f \in sys.deleted ELSE sys.unsync[f] = revision

FeatureSynchronized(d, t, f, revision) ==
    LET sys == loadSystemThingData(d, t)
    IN  IF ~sys.present THEN Result(d, "ThingNotFound", 0)
        ELSE IF sys.unsync[f] > 0 /\ sys.unsync[f] # revision THEN Result(d, "", 0)
        ELSE IF featureSynchronizedWrites(sys, f, revision)
        THEN Result([d EXCEPT !.sys[t] = featureSynchronizedLedger(sys, f)], "", 1)
        ELSE Result(d, "", 1)

RemoveThing(d, t) ==
    IF ~d.sys[t].present THEN Result(d, "ThingNotFound", 0)
    ELSE LET d1 == [d EXCEPT !.thing[t] = NoThingData, !.feat[t] = NoFeatures,
                             !.sys[t] = NoSystemThingData]
         IN  Result(updateThingIDs(d1, d1.ids, t, FALSE), "", 0)

\* ------------------------------------------------------------------------
\* The command handler (internal/commands).  A command is a record
\*   [kind, f, desired, rr, valid, idOK, thing, feature, props, pointer]
\* rr: the response-required header; valid: the value unmarshals; idOK: the
\* thing id of the value is absent or that of the topic; pointer: what the
\* JSON pointer of a single-property command does to the stored map.
\* ------------------------------------------------------------------------

\* what a command function leaves in CommandOutput, with the database after
\* it; response is "none" for a nil envelope; provisioned: the thing created
\* event of auto-provisioning was published; wrote: the command stored its
\* change; code: the error of an error response, without its things: prefix
\* and without the desired variant of the property errors; eventRevision:
\* the revision of the event envelope
NoOutput(d) ==
    [db |-> d, response |-> "none", event |-> FALSE, invalid |-> FALSE,
     thingID |-> "", featureID |-> "", revision |-> 0,
     provisioned |-> FALSE, wrote |-> FALSE, code |-> "none", eventRevision |-> 0]

\* responseEnvelope, ResponseEnvelopeWithValue and the error envelopes built
\* only when the command requires a response
responseEnvelope(c, r) == IF c.rr THEN r ELSE "none"

\* commandValue on a value that does not unmarshal
invalidValue(d, c) ==
    [NoOutput(d) EXCEPT !.invalid = TRUE, !.response = responseEnvelope(c, "error"),
                        !.code = responseEnvelope(c, "json.invalid")]

\* the thing auto-provisioning stores: no attributes, no features, revision 0
autoprovisionThing(d, t) ==
    AddThing(d, t, [attrs |-> "nil", features |-> NoFeatures, revision |-> 0]).db

\* GetThing fails iff the thing data key is missing
LoadThing(d, t, ap) ==
    IF d.thing[t].present
    THEN [ok |-> TRUE, db |-> d, provisioned |-> FALSE, err |-> ""]
    ELSE IF ap
    THEN [ok |-> TRUE, db |-> autoprovisionThing(d, t), provisioned |-> TRUE, err |-> ""]
    ELSE [ok |-> FALSE, db |-> d, provisioned |-> FALSE, err |-> "ThingNotFound"]

\* the error of Storage.GetFeature
GetFeature(d, t, f) ==
    IF ~d.sys[t].present THEN "ThingNotFound"
    ELSE IF ~d.feat[t][f].present THEN "FeatureNotFound"
    ELSE ""

\* a faulty LoadFeature: the error of GetFeature is returned as it is
LoadFeatureUnprovisioned(d, t, f, ap) ==
    LET e == GetFeature(d, t, f)
    IN  [ok |-> e = "", db |-> d, provisioned |-> FALSE, err |-> e]

LoadFeature(d, t, f, ap) ==
    LET e == GetFeature(d, t, f)
    IN  IF e = "" THEN [ok |-> TRUE, db |-> d, provisioned |-> FALSE, err |-> ""]
        ELSE IF ap /\ e = "ThingNotFound"
        THEN [ok |-> FALSE, db |-> autoprovisionThing(d, t), provisioned |-> TRUE,
              err |-> "FeatureNotFound"]
        ELSE [ok |-> FALSE, db |-> d, provisioned |-> FALSE, err |-> e]

\* the output of a command that stored its change with AddThing or AddFeature;
\* Handler.eventEnvelope reads the revision of the event back from storage
stored(d, c, t, f, rev) ==
    [NoOutput(d) EXCEPT !.response = responseEnvelope(c, "success"), !.event = TRUE,
                        !.thingID = t, !.featureID = f, !.revision = rev,
                        !.wrote = TRUE, !.eventRevision = d.sys[t].rev]

\* the output of a command that failed with the error response e
failed(d, c, e) ==
    [NoOutput(d) EXCEPT !.response = responseEnvelope(c, "error"),
                        !.code = responseEnvelope(c, e)]

\* the error Handler.resourceNotFound answers a storage error with
resourceNotFound(err) ==
    IF err = "ThingNotFound" THEN "thing.notfound" ELSE "feature.notfound"

performModifyThing(d, c, t) ==
    LET r == AddThing(d, t, c.thing)
    IN  [stored(r.db, c, t, "", r.val) EXCEPT !.eventRevision = c.thing.revision]

commandThingThen(d, c, out) ==
    IF ~c.valid THEN invalidValue(d, c)
    ELSE IF ~c.idOK
    THEN [NoOutput(d) EXCEPT !.response = "error", !.code = "id.notsettable"]
    ELSE out

\* a faulty createThing: the thing is stored whether it exists or not
createThingOverwrites(d, c, t) == commandThingThen(d, c, performModifyThing(d, c, t))

createThing(d, c, t) ==
    commandThingThen(d, c, IF ~d.thing[t].present THEN performModifyThing(d, c, t)
                           ELSE failed(d, c, "thing.conflict"))

modifyThing(d, c, t) == commandThingThen(d, c, performModifyThing(d, c, t))

retrieveThing(d, c, t) ==
    IF ~d.thing[t].present THEN failed(d, c, "thing.notfound")
    ELSE [NoOutput(d) EXCEPT !.response = responseEnvelope(c, "success")]

deleteThing(d, c, t, ap) ==
    LET lt == LoadThing(d, t, ap)
    IN  IF ~lt.ok THEN failed(d, c, resourceNotFound(lt.err))
        ELSE [NoOutput(lt.db) EXCEPT !.response = responseEnvelope(c, "success"),
                                     !.event = TRUE, !.provisioned = lt.provisioned,
                                     !.eventRevision = lt.db.sys[t].rev]

\* the loaded thing with its features replaced, stored by AddThing
storeFeatures(lt, c, t, features) ==
    LET r == AddThing(lt.db, t, [attrs |-> lt.db.thing[t].attrs, features |-> features,
                                 revision |-> lt.db.sys[t].rev])
    IN  [stored(r.db, c, t, "", r.val) EXCEPT !.provisioned = lt.provisioned]

modifyFeatures(d, c, t, ap) ==
    IF ~c.valid THEN invalidValue(d, c)
    ELSE LET lt == LoadThing(d, t, ap)
         IN  IF ~lt.ok THEN failed(d, c, resourceNotFound(lt.err))
             ELSE storeFeatures(lt, c, t, c.thing.features)

retrieveFeatures(d, c, t, ap) ==
    LET lt == LoadThing(d, t, ap)
    IN  IF ~lt.ok THEN failed(d, c, resourceNotFound(lt.err))
        ELSE IF prevFeatures(lt.db, t) = {}
        THEN [failed(lt.db, c, "features.notfound") EXCEPT !.provisioned = lt.provisioned]
        ELSE [NoOutput(lt.db) EXCEPT !.response = responseEnvelope(c, "success"),
                                     !.provisioned = lt.provisioned]

deleteFeatures(d, c, t, ap) ==
    LET lt == LoadThing(d, t, ap)
    IN  IF ~lt.ok THEN failed(d, c, resourceNotFound(lt.err))
        ELSE IF prevFeatures(lt.db, t) = {}
        THEN [failed(lt.db, c, "features.notfound") EXCEPT !.provisioned = lt.provisioned]
        ELSE storeFeatures(lt, c, t, NoFeatures)

modifyFeature(d, c, t, f, ap) ==
    IF ~c.valid THEN invalidValue(d, c)
    ELSE LET lt == IF GetFeature(d, t, f) = ""
                   THEN [ok |-> TRUE, db |-> d, provisioned |-> FALSE]
                   ELSE LoadThing(d, t, ap)
             r  == AddFeature(lt.db, t, f, c.feature)
         IN  IF ~lt.ok THEN failed(d, c, "thing.notfound")
             ELSE IF r.err # "" THEN failed(d, c, resourceNotFound(r.err))
             ELSE [stored(r.db, c, t, f, r.val) EXCEPT !.provisioned = lt.provisioned]

retrieveFeature(d, c, t, f, ap) ==
    LET lf == LoadFeature(d, t, f, ap)
    IN  IF lf.ok THEN [NoOutput(d) EXCEPT !.response = responseEnvelope(c, "success")]
        ELSE [failed(lf.db, c, resourceNotFound(lf.err)) EXCEPT
                !.provisioned = lf.provisioned]

deleteFeature(d, c, t, f, ap) ==
    LET r == RemoveFeature(d, t, f)
    IN  IF r.err = "" THEN stored(r.db, c, t, f, 0)
        ELSE IF ap /\ r.err = "ThingNotFound"
        THEN [failed(autoprovisionThing(r.db, t), c, "feature.notfound") EXCEPT
                !.provisioned = TRUE]
        ELSE failed(r.db, c, resourceNotFound(r.err))

\* the properties or the desired properties of a feature
Part(v, desired) == IF desired THEN v.desired ELSE v.props

WithPart(v, desired, p) ==
    IF desired THEN [v EXCEPT !.desired = p] ELSE [v EXCEPT !.props = p]

\* the output of a write that leaves thingID, featureID and revision unset
unmarked(o) == [o EXCEPT !.thingID = "", !.featureID = "", !.revision = 0]

addChangeInfo(o, revision) == IF revision = 1 THEN o ELSE unmarked(o)

\* the output after LoadFeature failed
featureNotLoaded(lf, c) ==
    [failed(lf.db, c, resourceNotFound(lf.err)) EXCEPT !.provisioned = lf.provisioned]

doPropertiesModify(d, c, t, f, ap) ==
    LET lf == LoadFeature(d, t, f, ap)
        r  == AddFeature(d, t, f, WithPart(d.feat[t][f], c.desired, c.props))
    IN  IF ~lf.ok THEN featureNotLoaded(lf, c)
        ELSE IF ~c.valid THEN invalidValue(d, c)
        ELSE stored(r.db, c, t, f, r.val)

doPropertiesRetrieve(d, c, t, f, ap) ==
    LET lf == LoadFeature(d, t, f, ap)
    IN  IF ~lf.ok THEN featureNotLoaded(lf, c)
        ELSE IF Part(d.feat[t][f], c.desired) = "nil" THEN failed(d, c, "properties.notfound")
        ELSE [NoOutput(d) EXCEPT !.response = responseEnvelope(c, "success")]

doPropertiesDelete(d, c, t, f, ap) ==
    LET lf == LoadFeature(d, t, f, ap)
        r  == AddFeature(d, t, f, WithPart(d.feat[t][f], c.desired, "nil"))
        o  == stored(r.db, c, t, f, r.val)
    IN  IF ~lf.ok THEN featureNotLoaded(lf, c)
        ELSE IF Part(d.feat[t][f], c.desired) = "nil" THEN failed(d, c, "properties.notfound")
        ELSE IF ~c.desired \/ r.val = 1 THEN o
        ELSE unmarked(o)

doPropertyModify(d, c, t, f, ap) ==
    LET lf == LoadFeature(d, t, f, ap)
        r  == AddFeature(d, t, f, WithPart(d.feat[t][f], c.desired, "a"))
    IN  IF ~lf.ok THEN featureNotLoaded(lf, c)
        ELSE IF ~c.valid THEN invalidValue(d, c)
        ELSE IF c.pointer = "fail" THEN failed(d, c, "property.notfound")
        ELSE addChangeInfo(stored(r.db, c, t, f, r.val), r.val)

doPropertyRetrieve(d, c, t, f, ap) ==
    LET lf == LoadFeature(d, t, f, ap)
    IN  IF ~lf.ok THEN featureNotLoaded(lf, c)
        ELSE IF Part(d.feat[t][f], c.desired) = "nil" \/ c.pointer = "fail"
        THEN failed(d, c, "property.notfound")
        ELSE [NoOutput(d) EXCEPT !.response = responseEnvelope(c, "success")]

\* deleting the last property of the map leaves the nil map
deletePropertyPathSlice(d, c, t, f) ==
    LET p == IF c.pointer = "emptied" THEN "nil" ELSE "a"
        r == AddFeature(d, t, f, WithPart(d.feat[t][f], c.desired, p))
    IN  IF Part(d.feat[t][f], c.desired) = "empty" \/ c.pointer = "fail"
        THEN failed(d, c, "property.notfound")
        ELSE addChangeInfo(stored(r.db, c, t, f, r.val), r.val)

doPropertyDelete(d, c, t, f, ap) ==
    LET lf == LoadFeature(d, t, f, ap)
    IN  IF ~lf.ok THEN featureNotLoaded(lf, c)
        ELSE IF Part(d.feat[t][f], c.desired) = "nil" THEN failed(d, c, "property.notfound")
        ELSE deletePropertyPathSlice(d, c, t, f)

\* thingCommand and featuresPathCommand: the command function of a command
cmdFunc(d, c, t, ap) ==
    CASE c.kind = "createThing" -> createThing(d, c, t)
      [] c.kind = "modifyThing" -> modifyThing(d, c, t)
      [] c.kind = "retrieveThing" -> retrieveThing(d, c, t)
      [] c.kind = "deleteThing" -> deleteThing(d, c, t, ap)
      [] c.kind = "modifyFeatures" -> modifyFeatures(d, c, t, ap)
      [] c.kind = "retrieveFeatures" -> retrieveFeatures(d, c, t, ap)
      [] c.kind = "deleteFeatures" -> deleteFeatures(d, c, t, ap)
      [] c.kind = "modifyFeature" -> modifyFeature(d, c, t, c.f, ap)
      [] c.kind = "retrieveFeature" -> retrieveFeature(d, c, t, c.f, ap)
      [] c.kind = "deleteFeature" -> deleteFeature(d, c, t, c.f, ap)
      [] c.kind = "modifyProperties" -> doPropertiesModify(d, c, t, c.f, ap)
      [] c.kind = "retrieveProperties" -> doPropertiesRetrieve(d, c, t, c.f, ap)
      [] c.kind = "deleteProperties" -> doPropertiesDelete(d, c, t, c.f, ap)
      [] c.kind = "modifyProperty" -> doPropertyModify(d, c, t, c.f, ap)
      [] c.kind = "retrieveProperty" -> doPropertyRetrieve(d, c, t, c.f, ap)
      [] c.kind = "deleteProperty" -> doPropertyDelete(d, c, t, c.f, ap)

\* a faulty publishCommandLocalOutput: the event goes out first
publishCommandLocalOutputEventFirst(o) ==
    (IF o.event THEN <<"event">> ELSE <<>>)
        \o (IF o.response # "none" THEN <<"response">> ELSE <<>>)

\* the messages publishCommandLocalOutput publishes locally, in order
publishCommandLocalOutput(o) ==
    (IF o.response # "none" THEN <<"response">> ELSE <<>>)
        \o (IF o.event THEN <<"event">> ELSE <<>>)

\* the database after FeatureSynchronized or ThingSynchronized of the output
resourceSynchronized(o) ==
    IF o.thingID = "" THEN o.db
    ELSE IF o.featureID # "" THEN FeatureSynchronized(o.db, o.thingID, o.featureID, o.revision).db
    ELSE ThingSynchronized(o.db, o.thingID, o.revision).db

\* PublishHonoMsg: ErrNotConnected when the hub connection is down
publishCommandToHono(up) == IF up THEN "" ELSE "ErrNotConnected"

\* a faulty end of HandleCommand: the mark is set whatever the forward did
afterForwardAlways(o, err) ==
    [db |-> resourceSynchronized(o), marked |-> o.thingID # ""]

\* the end of HandleCommand: the synchronized mark after the forward
afterForward(o, err) ==
    IF err = ""
    THEN [db |-> resourceSynchronized(o), marked |-> o.thingID # ""]
    ELSE [db |-> o.db, marked |-> FALSE]

\* HandleCommand from the output o of the command function on: the local
\* messages, the forward with its error err, the synchronized mark, the
\* error returned to the router and whether the message is returned to it
handled(o, err) ==
    LET local == (IF o.provisioned THEN <<"provisioned">> ELSE <<>>)
                     \o publishCommandLocalOutput(o)
        end   == afterForward(o, err)
    IN  IF o.invalid
        THEN [db |-> o.db, out |-> local, forward |-> "none", marked |-> FALSE, o |-> o,
              returned |-> "invalidValue", passed |-> FALSE]
        ELSE [db |-> end.db, out |-> IF err = "" THEN Append(local, "forward") ELSE local,
              forward |-> IF err = "" THEN "ok" ELSE "failed",
              marked |-> end.marked, o |-> o, returned |-> "", passed |-> FALSE]

\* HandleCommand on database d with the hub connection up or down: the
\* database after it, the messages it published in order, what became of
\* the forward, and whether it called a synchronized mark
HandleCommand(d, c, t, ap, up) ==
    handled(cmdFunc(d, c, t, ap), publishCommandToHono(up))

\* the action of the command's topic
Action(c) ==
    CASE c.kind = "createThing" -> "create"
      [] c.kind \in {"modifyThing", "modifyFeatures", "modifyFeature", "modifyProperties",
                     "modifyProperty"} -> "modify"
      [] c.kind \in {"deleteThing", "deleteFeatures", "deleteFeature", "deleteProperties",
                     "deleteProperty"} -> "delete"
      [] OTHER -> "retrieve"

\* a faulty publishCommandToHono: the flag is cleared whenever a response
\* was published
forwardedResponseRequiredCleared(c, o) ==
    IF o.response # "none" THEN FALSE ELSE c.rr

\* publishCommandToHono: the response-required flag of the message that is
\* forwarded, the original one or the clone of cmdWithNoResponseRequired
forwardedResponseRequired(c, o) ==
    IF o.response # "none" /\ Action(c) = "retrieve" THEN FALSE ELSE c.rr

\* the messages HandleCommand does not serve: a payload that is no envelope
\* JSON, a twin command with a path of unknown scope, an envelope that is
\* not twin/commands, and a twin command whose scope and action have no
\* command function
Unserved == {"invalidPayload", "unknownPath", "notTwinCommand", "unsupported"}

\* a faulty HandleCommand: the malformed message is returned to the router
rejectedPassedOn(d, form) ==
    [db |-> d, out |-> <<>>, forward |-> "none", marked |-> FALSE, o |-> NoOutput(d),
     returned |-> "", passed |-> TRUE]

\* HandleCommand returns an error to the router
rejected(d, form) ==
    [db |-> d, out |-> <<>>, forward |-> "none", marked |-> FALSE, o |-> NoOutput(d),
     returned |-> form, passed |-> FALSE]

\* a faulty HandleCommand: the message it does not serve is forwarded
passedOnForwarded(d, form) ==
    [db |-> d, out |-> <<"forward">>, forward |-> "ok", marked |-> FALSE,
     o |-> NoOutput(d), returned |-> "", passed |-> TRUE]

\* HandleCommand returns the message to the router
passedOn(d, form) ==
    [db |-> d, out |-> <<>>, forward |-> "none", marked |-> FALSE, o |-> NoOutput(d),
     returned |-> "", passed |-> TRUE]

\* HandleCommand of a message it does not serve
HandleUnserved(d, form) ==
    IF form \in {"invalidPayload", "unknownPath"} THEN rejected(d, form)
    ELSE passedOn(d, form)

\* ------------------------------------------------------------------------
\* State
\* ------------------------------------------------------------------------

VARIABLES
    db,                 \* the bbolt bucket
    call,               \* per process: the storage call in progress and its local data
    start,              \* the database when the current round of concurrent calls began
    autoProvisioning,   \* Handler.AutoProvisioning
    link,               \* the hub connection is up
    connected,          \* Synchronizer.connected
    cloudResponsesIDs,  \* the keys of Synchronizer.cloudResponsesIDs
    uuid,               \* the number of correlation ids generated so far
    routines,           \* the lifecycle goroutines and how far each one is
    requests,           \* the retrieve commands published upstream, not yet answered
    unpublished,        \* per thing: the local changes no upstream message carried yet
    quiet,              \* no command has written since the last Connected(true)
    last,               \* what the last handled command did
    inbound,            \* what HandleResponse did with the last inbound hub message
    started,            \* what the last Start did, thing by thing
    update,             \* the UpdateLocalDesiredProperties in progress
    lifecycle,          \* the last two calls of Start and Stop
    files,              \* the store file, its backups and the last NewThingsDB
    handling            \* per handler goroutine: the command in progress

syncvars == <<autoProvisioning, link, connected, cloudResponsesIDs, uuid, routines,
              requests, unpublished, quiet, last, inbound, started, update, lifecycle,
              files, handling>>

vars == <<db, call, start, autoProvisioning, link, connected, cloudResponsesIDs, uuid,
          routines, requests, unpublished, quiet, last, inbound, started, update,
          lifecycle, files, handling>>

\* the Connected(true) signals so far, Start goroutines sleeping, Start
\* goroutines that have listed the things and not yet retrieved, Stop
\* goroutines not yet run, Stop goroutines between their two assignments
NoRoutines ==
    [signals |-> 0, starts |-> 0, retrieving |-> 0, stops |-> 0, stopping |-> 0]

\* thing: a thing-level change; feat[f]: the changed parts of stored
\* feature f; del: the deleted features
NoUnpublished ==
    [thing |-> FALSE, feat |-> [f \in FeatureIDs |-> {}], del |-> {}]

\* no inbound message yet: the message, whether its correlation id was in
\* the pending map when it arrived, whether it was passed on to the router,
\* the error returned, whether UpdateLocalDesiredProperties returned nil,
\* whether the id was removed, whether SyncThings was called and what it did
NoInbound ==
    [seen |-> FALSE, decodes |-> FALSE, id |-> 0, thing |-> "", kind |-> "",
     parses |-> FALSE, pending |-> FALSE, passed |-> FALSE, err |-> "",
     applied |-> FALSE, removed |-> FALSE, synced |-> FALSE,
     sync |-> [err |-> "", ledger |-> NoSystemThingData, features |-> NoFeatures,
               commands |-> {}, left |-> NoSystemThingData]]

\* Start has not run: whether Start has returned, whether the synchronizer
\* and the link were up at each of its steps, and per thing whether it had
\* features, the retrieve commands and the other messages published for
\* it, and the correlation ids recorded for it
NotStarted ==
    [done |-> FALSE, up |-> TRUE,
     thing |-> [t \in ThingIDs |->
                    [features |-> FALSE, commands |-> 0, others |-> 0, recorded |-> 0]]]

\* no UpdateLocalDesiredProperties is running.  pc: where the call is; t,
\* cloud: its arguments; features: localThing.Features; data: the ledger
\* read before the loop; todo: the features the loop has not visited; f,
\* local: the feature of the current iteration; before: the database when
\* the call began; expect: the features as the commands left them, with
\* the desired properties the call stored; changed: the features the call
\* stored; alone: no command was handled during the call
NoUpdate ==
    [pc |-> "idle", t |-> "t1", cloud |-> [f \in FeatureIDs |-> "absent"],
     features |-> NoFeatures, data |-> NoSystemThingData, todo |-> {},
     f |-> "f1", local |-> NoFeature, before |-> EmptyDB, expect |-> NoFeatures,
     changed |-> {}, alone |-> TRUE, err |-> ""]

\* neither Start nor Stop was called.  calls: the calls so far; op: the last
\* call; view: the connected flag and the things awaiting a response it
\* left; db, up, first: the storage, the link and the first thing of
\* GetThingIDs it found; prev: the same of the call before it
NoCalls ==
    [calls |-> 0, op |-> "none", view |-> [connected |-> FALSE, things |-> {}],
     db |-> EmptyDB, up |-> FALSE, first |-> "",
     prev |-> [op |-> "none", view |-> [connected |-> FALSE, things |-> {}],
               db |-> EmptyDB, up |-> FALSE, first |-> ""]]

\* a name of the file system with no file, a store file: the device id
\* under the key of the database name (<<>>: unset) and the ids of the
\* things it holds
NoFile == [exists |-> FALSE, name |-> <<>>, things |-> {}]

File(name, things) == [exists |-> TRUE, name |-> name, things |-> things]

\* NewThingsDB was not called: the device id, the returned error, the store
\* file it found, the store file, the backups and the open handles it left
NotOpened ==
    [deviceID |-> <<>>, err |-> FALSE, before |-> NoFile, after |-> NoFile,
     backup |-> <<>>, open |-> 0]

\* no store file yet.  store: the file at the path of the store; backup: the
\* files at the path followed by a suffix; dirs: the suffixes where a
\* directory is in the way; open: the open Database handles; now: the
\* clock; opened: the last NewThingsDB
NoFiles ==
    [store |-> NoFile, backup |-> <<>>, dirs |-> {}, open |-> 0, now |-> 0,
     opened |-> NotOpened]

\* the goroutine handles no command.  kind, t, f, desired: the command, its
\* thing, feature and part; key: the property its pointer addresses; attrs:
\* the attributes of the thing it creates; after: the other commands had
\* been answered when it began; found: GetThingData found the thing;
\* feature: the feature LoadFeature returned; response, code: its answer
NotHandling ==
    [pc |-> "idle", kind |-> "none", t |-> "t1", f |-> "f1", key |-> "x",
     desired |-> FALSE, attrs |-> "nil", after |-> FALSE, found |-> FALSE,
     feature |-> NoFeature, response |-> "none", code |-> "none"]

NoCommand ==
    [out |-> <<>>, forward |-> "none", marked |-> FALSE, wrote |-> FALSE,
     guarded |-> FALSE, first |-> FALSE, kept |-> TRUE,
     form |-> "none", rr |-> TRUE, action |-> "", response |-> "none", event |-> FALSE,
     invalid |-> FALSE, returned |-> "", passed |-> FALSE, forwardedRR |-> TRUE,
     unchanged |-> TRUE, kind |-> "none", thing |-> "t1", feature |-> "f1",
     code |-> "none", provisioned |-> FALSE, existed |-> FALSE,
     eventRevision |-> 0, written |-> 0]

Idle == [op |-> "idle", pc |-> "idle", t |-> "t1", f |-> "f1", v |-> NoFeature,
         thing |-> [attrs |-> "nil", features |-> NoFeatures, revision |-> 0],
         revision |-> 0, sys |-> NoSystemThingData, ids |-> {},
         err |-> "", val |-> 0]

\* ------------------------------------------------------------------------
\* Concurrent storage calls: each action below is one transaction of one
\* call (with the in-memory code that follows it up to the next transaction)
\* ------------------------------------------------------------------------

\* the feature values and things the concurrent callers store
StoredFeatures == {Feature("a", "nil")}

StoredThings ==
    [attrs : {"a"},
     features : [FeatureIDs -> {NoFeature, Feature("a", "nil")}],
     revision : {0, 1}]

\* the call has returned e and v; its local data is gone
Done(c, e, v) ==
    [c EXCEPT !.pc = "done", !.err = e, !.val = v, !.sys = NoSystemThingData, !.ids = {}]

Begin(p, c) ==
    /\ call[p].op = "idle"
    /\ call' = [call EXCEPT ![p] = c]
    /\ UNCHANGED <<db, start, syncvars>>

At(p, o, l) == call[p].op = o /\ call[p].pc = l

\* the calls that bump the revision are not started at the cut-off
BelowMaxRev(t) == db.sys[t].rev < MaxRev

CallAddThing(p) ==
    \E t \in ThingIDs, th \in StoredThings :
        /\ BelowMaxRev(t)
        /\ Begin(p, [Idle EXCEPT !.op = "AddThing", !.pc = "getThing", !.t = t, !.thing = th])

CallAddFeature(p) ==
    \E t \in ThingIDs, f \in FeatureIDs, v \in StoredFeatures :
        /\ BelowMaxRev(t)
        /\ Begin(p, [Idle EXCEPT !.op = "AddFeature", !.pc = "load", !.t = t, !.f = f, !.v = v])

CallRemoveFeature(p) ==
    \E t \in ThingIDs, f \in FeatureIDs :
        /\ BelowMaxRev(t)
        /\ Begin(p, [Idle EXCEPT !.op = "RemoveFeature", !.pc = "load", !.t = t, !.f = f])

CallThingSynchronized(p) ==
    \E t \in ThingIDs : \E r \in {db.sys[t].rev, 0} :
        Begin(p, [Idle EXCEPT !.op = "ThingSynchronized", !.pc = "load", !.t = t, !.revision = r])

CallFeatureSynchronized(p) ==
    \E t \in ThingIDs, f \in FeatureIDs : \E r \in {db.sys[t].unsync[f], 0} :
        Begin(p, [Idle EXCEPT !.op = "FeatureSynchronized", !.pc = "load", !.t = t, !.f = f,
                              !.revision = r])

CallRemoveThing(p) ==
    \E t \in ThingIDs :
        Begin(p, [Idle EXCEPT !.op = "RemoveThing", !.pc = "load", !.t = t])

Local(p, c) == call' = [call EXCEPT ![p] = c] /\ UNCHANGED <<db, start, syncvars>>

Write(p, d, c) ==
    db' = d /\ call' = [call EXCEPT ![p] = c] /\ UNCHANGED <<start, syncvars>>

\* AddThing: loadThingData, first transaction (the thing data key)
AddThingGetThing(p) ==
    /\ At(p, "AddThing", "getThing")
    /\ LET c == call[p]
       IN  IF db.thing[c.t].present
           THEN Local(p, [c EXCEPT !.pc = "loadSys"])
           ELSE Local(p, [c EXCEPT !.pc = "prev",
                    !.sys = updateSystemThingData(
                                SystemThingData(c.thing.revision - 1, {}, NoUnsync))])

\* AddThing: loadThingData, second transaction (the ledger key)
AddThingLoadSys(p) ==
    /\ At(p, "AddThing", "loadSys")
    /\ LET c == call[p]
           sys == loadSystemThingData(db, c.t)
       IN  Local(p, [c EXCEPT !.pc = "prev",
                 !.sys = updateSystemThingData(
                             IF sys.present THEN sys
                             ELSE SystemThingData(c.thing.revision - 1, {}, NoUnsync))])

\* AddThing: persistThingData reads the stored features
AddThingPrev(p) ==
    /\ At(p, "AddThing", "prev")
    /\ LET c == call[p]
       IN  Local(p, [c EXCEPT !.pc = "persist",
                 !.sys = thingLedger(c.sys, prevFeatures(db, c.t), c.thing.features)])

\* AddThing: persistAll
AddThingPersist(p) ==
    /\ At(p, "AddThing", "persist")
    /\ LET c == call[p]
       IN  Write(p, persistAll(db, c.t, c.thing.attrs, c.sys, c.thing.features),
                 [c EXCEPT !.pc = "getIDs"])

\* updateThingIDs, read
GetIDs(p) ==
    /\ call[p].op \in {"AddThing", "RemoveThing"}
    /\ call[p].pc = "getIDs"
    /\ Local(p, [call[p] EXCEPT !.pc = "setIDs", !.ids = db.ids])

\* updateThingIDs, write
SetIDs(p) ==
    /\ call[p].op \in {"AddThing", "RemoveThing"}
    /\ call[p].pc = "setIDs"
    /\ LET c == call[p]
       IN  Write(p, updateThingIDs(db, c.ids, c.t, c.op = "AddThing"),
                 Done(c, "", IF c.op = "AddThing" THEN c.sys.rev ELSE 0))

\* the first transaction of AddFeature, RemoveFeature, ThingSynchronized,
\* FeatureSynchronized and RemoveThing: loadSystemThingData
LoadSys(p) ==
    /\ call[p].op \in {"AddFeature", "RemoveFeature", "ThingSynchronized",
                       "FeatureSynchronized", "RemoveThing"}
    /\ call[p].pc = "load"
    /\ LET c == call[p]
           sys == loadSystemThingData(db, c.t)
       IN  IF ~sys.present
           THEN Local(p, Done(c, "ThingNotFound", IF c.op = "AddFeature" THEN -1 ELSE 0))
           ELSE CASE c.op = "AddFeature" ->
                       Local(p, [c EXCEPT !.pc = "persist", !.sys = updateSystemThingData(sys)])
                  [] c.op = "RemoveFeature" ->
                       Local(p, [c EXCEPT !.pc = "get", !.sys = updateSystemThingData(sys)])
                  [] c.op = "ThingSynchronized" ->
                       IF c.revision = sys.rev
                       THEN Local(p, [c EXCEPT !.pc = "set",
                                !.sys = [sys EXCEPT !.deleted = {}, !.unsync = NoUnsync]])
                       ELSE Local(p, Done(c, "", 0))
                  [] c.op = "FeatureSynchronized" ->
                       IF sys.unsync[c.f] > 0 /\ sys.unsync[c.f] # c.revision
                       THEN Local(p, Done(c, "", 0))
                       ELSE IF featureSynchronizedWrites(sys, c.f, c.revision)
                       THEN Local(p, [c EXCEPT !.pc = "set",
                                !.sys = featureSynchronizedLedger(sys, c.f)])
                       ELSE Local(p, Done(c, "", 1))
                  [] c.op = "RemoveThing" ->
                       Local(p, [c EXCEPT !.pc = "delThing"])

\* AddFeature: persistFeature
AddFeaturePersist(p) ==
    /\ At(p, "AddFeature", "persist")
    /\ LET c == call[p]
           d == persistFeature(db, c.t, c.f, c.v, c.sys)
       IN  Write(p, d, Done(c, "", putFeatureData(c.sys, c.f).unsync[c.f]))

\* RemoveFeature: Get(featureKey)
RemoveFeatureGet(p) ==
    /\ At(p, "RemoveFeature", "get")
    /\ LET c == call[p]
       IN  IF db.feat[c.t][c.f].present
           THEN Local(p, [c EXCEPT !.pc = "delete"])
           ELSE Local(p, Done(c, "FeatureNotFound", 0))

\* RemoveFeature: Delete(featureKey)
RemoveFeatureDelete(p) ==
    /\ At(p, "RemoveFeature", "delete")
    /\ LET c == call[p]
       IN  Write(p, [db EXCEPT !.feat[c.t][c.f] = NoFeature],
                 [c EXCEPT !.pc = "set",
                           !.sys = [c.sys EXCEPT !.deleted = @ \cup {c.f}, !.unsync[c.f] = 0]])

\* the SetAs of the ledger that ends RemoveFeature, ThingSynchronized and
\* FeatureSynchronized
SetSys(p) ==
    /\ call[p].op \in {"RemoveFeature", "ThingSynchronized", "FeatureSynchronized"}
    /\ call[p].pc = "set"
    /\ LET c == call[p]
       IN  Write(p, [db EXCEPT !.sys[c.t] = c.sys],
                 Done(c, "", IF c.op = "RemoveFeature" THEN 0 ELSE 1))

\* RemoveThing: Delete(thingID)
RemoveThingDelete(p) ==
    /\ At(p, "RemoveThing", "delThing")
    /\ LET c == call[p]
       IN  Write(p, [db EXCEPT !.thing[c.t] = NoThingData], [c EXCEPT !.pc = "delFeatures"])

\* RemoveThing: DeleteAll(FeaturesKeyPrefix(thingID))
RemoveThingDeleteFeatures(p) ==
    /\ At(p, "RemoveThing", "delFeatures")
    /\ LET c == call[p]
       IN  Write(p, [db EXCEPT !.feat[c.t] = NoFeatures], [c EXCEPT !.pc = "delSys"])

\* RemoveThing: DeleteAll(SystemThingKey(thingID))
RemoveThingDeleteSys(p) ==
    /\ At(p, "RemoveThing", "delSys")
    /\ LET c == call[p]
       IN  Write(p, [db EXCEPT !.sys[c.t] = NoSystemThingData], [c EXCEPT !.pc = "getIDs"])

\* every caller has returned: the next round of concurrent calls starts
NextRound ==
    /\ \A p \in Procs : call[p].pc = "done"
    /\ call' = [p \in Procs |-> Idle]
    /\ UNCHANGED <<db, start, syncvars>>

\* the handler and the synchronizer after construction, the hub not connected
InitSync ==
    /\ link = FALSE
    /\ connected = FALSE
    /\ cloudResponsesIDs = {}
    /\ uuid = 0
    /\ routines = NoRoutines
    /\ requests = {}
    /\ unpublished = [t \in ThingIDs |-> NoUnpublished]
    /\ quiet = TRUE
    /\ last = NoCommand
    /\ inbound = NoInbound
    /\ started = NotStarted
    /\ update = NoUpdate
    /\ lifecycle = NoCalls
    /\ files = NoFiles
    /\ handling = [p \in Procs |-> NotHandling]

InitStorage ==
    /\ db = EmptyDB
    /\ call = [p \in Procs |-> Idle]
    /\ start = EmptyDB
    /\ autoProvisioning = FALSE
    /\ InitSync

StorageStep ==
    \/ \E p \in Procs : CallAddThing(p)
    \/ \E p \in Procs : CallAddFeature(p)
    \/ \E p \in Procs : CallRemoveFeature(p)
    \/ \E p \in Procs : CallThingSynchronized(p)
    \/ \E p \in Procs : CallFeatureSynchronized(p)
    \/ \E p \in Procs : CallRemoveThing(p)
    \/ \E p \in Procs : AddThingGetThing(p)
    \/ \E p \in Procs : AddThingLoadSys(p)
    \/ \E p \in Procs : AddThingPrev(p)
    \/ \E p \in Procs : AddThingPersist(p)
    \/ \E p \in Procs : GetIDs(p)
    \/ \E p \in Procs : SetIDs(p)
    \/ \E p \in Procs : LoadSys(p)
    \/ \E p \in Procs : AddFeaturePersist(p)
    \/ \E p \in Procs : RemoveFeatureGet(p)
    \/ \E p \in Procs : RemoveFeatureDelete(p)
    \/ \E p \in Procs : SetSys(p)
    \/ \E p \in Procs : RemoveThingDelete(p)
    \/ \E p \in Procs : RemoveThingDeleteFeatures(p)
    \/ \E p \in Procs : RemoveThingDeleteSys(p)

NextStorage == StorageStep \/ NextRound

\* rounds of two concurrent storage calls, one round after the other
SpecStorage == InitStorage /\ [][NextStorage]_vars

\* databases that calls made one after the other produce
aThing(fs) ==
    [attrs |-> "a", revision |-> 0,
     features |-> [f \in FeatureIDs |-> IF f \in fs THEN Feature("a", "nil") ELSE NoFeature]]

dbThing == AddThing(EmptyDB, "t1", aThing({"f1"})).db

dbFeature == AddFeature(dbThing, "t1", "f2", Feature("a", "nil")).db

dbSynchronized == ThingSynchronized(dbThing, "t1", 0).db

dbRemoved == RemoveFeature(dbSynchronized, "t1", "f1").db

RoundStarts == {EmptyDB, dbThing, dbFeature, dbSynchronized, dbRemoved}

InitRound ==
    /\ db \in RoundStarts
    /\ start = db
    /\ call = [p \in Procs |-> Idle]
    /\ autoProvisioning = FALSE
    /\ InitSync

\* one round of two concurrent storage calls
SpecRound == InitRound /\ [][StorageStep]_vars

\* the call of a returned caller, run alone on database d
Serial(d, c) ==
    CASE c.op = "AddThing" -> AddThing(d, c.t, c.thing)
      [] c.op = "AddFeature" -> AddFeature(d, c.t, c.f, c.v)
      [] c.op = "RemoveFeature" -> RemoveFeature(d, c.t, c.f)
      [] c.op = "ThingSynchronized" -> ThingSynchronized(d, c.t, c.revision)
      [] c.op = "FeatureSynchronized" -> FeatureSynchronized(d, c.t, c.f, c.revision)
      [] c.op = "RemoveThing" -> RemoveThing(d, c.t)

SameResult(r, c) == r.err = c.err /\ r.val = c.val

\* the outcome of the round is that of running the two calls one after the
\* other, in one of the two orders
SerialOutcome(p, q) ==
    LET r1 == Serial(start, call[p])
        r2 == Serial(r1.db, call[q])
    IN  r2.db = db /\ SameResult(r1, call[p]) /\ SameResult(r2, call[q])

AllReturned == \A p \in Procs : call[p].pc = "done"

\* ------------------------------------------------------------------------
\* Storage calls made one after the other: each action is a whole
\* ThingsStorage operation.  start is the database before the last call,
\* call["p1"] the call with what it returned.
\* ------------------------------------------------------------------------

\* the calls that bump the ledger revision are cut off here
MaxAloneRev == 3

BelowMaxAloneRev(t) == db.sys[t].rev < MaxAloneRev

Alone(c) ==
    /\ start' = db
    /\ db' = Serial(db, c).db
    /\ call' = [call EXCEPT !["p1"] = Done(c, Serial(db, c).err, Serial(db, c).val)]
    /\ UNCHANGED syncvars

NextAlone ==
    \/ \E t \in ThingIDs, th \in StoredThings :
          /\ BelowMaxAloneRev(t)
          /\ Alone([Idle EXCEPT !.op = "AddThing", !.t = t, !.thing = th])
    \/ \E t \in ThingIDs, f \in FeatureIDs, v \in StoredFeatures :
          /\ BelowMaxAloneRev(t)
          /\ Alone([Idle EXCEPT !.op = "AddFeature", !.t = t, !.f = f, !.v = v])
    \/ \E t \in ThingIDs, f \in FeatureIDs :
          /\ BelowMaxAloneRev(t)
          /\ Alone([Idle EXCEPT !.op = "RemoveFeature", !.t = t, !.f = f])
    \/ \E t \in ThingIDs : \E r \in {db.sys[t].rev, 0} :
          Alone([Idle EXCEPT !.op = "ThingSynchronized", !.t = t, !.revision = r])
    \/ \E t \in ThingIDs, f \in FeatureIDs : \E r \in {db.sys[t].unsync[f], 1} :
          Alone([Idle EXCEPT !.op = "FeatureSynchronized", !.t = t, !.f = f, !.revision = r])
    \/ \E t \in ThingIDs :
          Alone([Idle EXCEPT !.op = "RemoveThing", !.t = t])

SpecAlone == InitStorage /\ [][NextAlone]_vars

\* ------------------------------------------------------------------------
\* Concurrent AddThing and RemoveThing calls for two thing ids, transaction
\* by transaction: the calls share the key of the thing ids
\* ------------------------------------------------------------------------

\* the thing ids of the callers
TwoThings == {"t1", "t2"}

\* the bucket after NewThingsDB on a fresh file
TwoThingsDB ==
    [ids   |-> {},
     thing |-> [t \in TwoThings |-> NoThingData],
     sys   |-> [t \in TwoThings |-> NoSystemThingData],
     feat  |-> [t \in TwoThings |-> NoFeatures]]

\* GetThing returns no error: loadThingData finds the thing data key
GetThingSucceeds(d, t) == d.thing[t].present

CallAddThingOf(p) ==
    \E t \in TwoThings, fs \in {{}, {"f1"}} :
        /\ BelowMaxRev(t)
        /\ Begin(p, [Idle EXCEPT !.op = "AddThing", !.pc = "getThing", !.t = t,
                                 !.thing = aThing(fs)])

CallRemoveThingOf(p) ==
    \E t \in TwoThings :
        Begin(p, [Idle EXCEPT !.op = "RemoveThing", !.pc = "load", !.t = t])

InitThingIDs ==
    /\ db = TwoThingsDB
    /\ call = [p \in Procs |-> Idle]
    /\ start = EmptyDB
    /\ autoProvisioning = FALSE
    /\ InitSync

NextThingIDs ==
    \/ \E p \in Procs : CallAddThingOf(p)
    \/ \E p \in Procs : CallRemoveThingOf(p)
    \/ \E p \in Procs : AddThingGetThing(p)
    \/ \E p \in Procs : AddThingLoadSys(p)
    \/ \E p \in Procs : AddThingPrev(p)
    \/ \E p \in Procs : AddThingPersist(p)
    \/ \E p \in Procs : GetIDs(p)
    \/ \E p \in Procs : SetIDs(p)
    \/ \E p \in Procs : LoadSys(p)
    \/ \E p \in Procs : RemoveThingDelete(p)
    \/ \E p \in Procs : RemoveThingDeleteFeatures(p)
    \/ \E p \in Procs : RemoveThingDeleteSys(p)
    \/ NextRound

SpecThingIDs == InitThingIDs /\ [][NextThingIDs]_vars

\* ------------------------------------------------------------------------
\* Opening the store (NewThingsDB): the store file is bound to the device
\* id under the key of the database name.  A device id is the sequence of
\* its characters.
\* ------------------------------------------------------------------------

DeviceIDs == {<<"d", ":", "1">>, <<"d", ":", "2">>, <<"d", "_", "1">>}

\* the clock is cut off here
MaxTime == 1

\* strings.ReplaceAll(name, ":", "_")
backupSuffix(name) == [i \in DOMAIN name |-> IF name[i] = ":" THEN "_" ELSE name[i]]

\* fmt.Sprintf("%d", time.Now().Unix())
timeSuffix(now) == <<ToString(now)>>

\* os.Rename of the store file to the path with the suffix: it fails when a
\* directory is in the way, and replaces a file that is there
Rename(fs, suffix) ==
    IF suffix \in fs.dirs THEN [fs |-> fs, err |-> TRUE]
    ELSE [fs |-> [fs EXCEPT !.backup = (suffix :> fs.store) @@ @, !.store = NoFile],
          err |-> FALSE]

\* a faulty backupDB: the store file is removed
backupDBRemoves(fs, name) == [fs |-> [fs EXCEPT !.store = NoFile], err |-> FALSE]

backupDB(fs, name) ==
    IF Rename(fs, backupSuffix(name)).err THEN Rename(fs, timeSuffix(fs.now))
    ELSE Rename(fs, backupSuffix(name))

\* bbolt.Open creates the file when there is none
NewDatabase(fs) ==
    [fs EXCEPT !.store = IF @.exists THEN @ ELSE File(<<>>, {}), !.open = @ + 1]

RECURSIVE NewThingsDB(_, _)

\* yields the file system after the call and whether an error was returned
NewThingsDB(fs, deviceID) ==
    LET database == NewDatabase(fs)
        name     == database.store.name
    IN  IF Len(name) = 0
        THEN [fs |-> [database EXCEPT !.store.name = deviceID], err |-> FALSE]
        ELSE IF name # deviceID
        THEN IF backupDB([database EXCEPT !.open = @ - 1], name).err
             THEN [fs |-> backupDB([database EXCEPT !.open = @ - 1], name).fs, err |-> TRUE]
             ELSE NewThingsDB(backupDB([database EXCEPT !.open = @ - 1], name).fs, deviceID)
        ELSE [fs |-> database, err |-> FALSE]

\* NewThingsDB on the closed store, with what it found and what it left
OpenStore(deviceID) ==
    /\ files.open = 0
    /\ files' = [NewThingsDB(files, deviceID).fs EXCEPT
                    !.opened = [deviceID |-> deviceID,
                                err      |-> NewThingsDB(files, deviceID).err,
                                before   |-> files.store,
                                after    |-> NewThingsDB(files, deviceID).fs.store,
                                backup   |-> NewThingsDB(files, deviceID).fs.backup,
                                open     |-> NewThingsDB(files, deviceID).fs.open]]
    /\ UNCHANGED <<db, call, start, autoProvisioning, link, connected, cloudResponsesIDs,
                   uuid, routines, requests, unpublished, quiet, last, inbound, started,
                   update, lifecycle, handling>>

\* AddThing on the open store
StoreThing(t) ==
    /\ files.open = 1
    /\ t \notin files.store.things
    /\ files' = [files EXCEPT !.store.things = @ \cup {t}]
    /\ UNCHANGED <<db, call, start, autoProvisioning, link, connected, cloudResponsesIDs,
                   uuid, routines, requests, unpublished, quiet, last, inbound, started,
                   update, lifecycle, handling>>

\* thingsDB.Close
CloseStore ==
    /\ files.open = 1
    /\ files' = [files EXCEPT !.open = 0]
    /\ UNCHANGED <<db, call, start, autoProvisioning, link, connected, cloudResponsesIDs,
                   uuid, routines, requests, unpublished, quiet, last, inbound, started,
                   update, lifecycle, handling>>

\* a second passes
Tick ==
    /\ files.now < MaxTime
    /\ files' = [files EXCEPT !.now = @ + 1]
    /\ UNCHANGED <<db, call, start, autoProvisioning, link, connected, cloudResponsesIDs,
                   uuid, routines, requests, unpublished, quiet, last, inbound, started,
                   update, lifecycle, handling>>

\* something else puts a directory where a backup of the store would go
MakeDirectory(deviceID) ==
    /\ files.dirs = {}
    /\ backupSuffix(deviceID) \notin DOMAIN files.backup
    /\ files' = [files EXCEPT !.dirs = {backupSuffix(deviceID)}]
    /\ UNCHANGED <<db, call, start, autoProvisioning, link, connected, cloudResponsesIDs,
                   uuid, routines, requests, unpublished, quiet, last, inbound, started,
                   update, lifecycle, handling>>

NextFiles ==
    \/ \E d \in DeviceIDs : OpenStore(d)
    \/ \E t \in ThingIDs : StoreThing(t)
    \/ CloseStore
    \/ Tick
    \/ \E d \in DeviceIDs : MakeDirectory(d)

SpecFiles == InitStorage /\ [][NextFiles]_vars

\* ------------------------------------------------------------------------
\* The synchronizer (internal/sync)
\* ------------------------------------------------------------------------

\* what the hub's answer holds for a feature: no entry, or the entry's
\* desiredProperties
CloudVals == {"absent", "nil", "a"}

\* a faulty desiredPropertiesChangedOnSync: a feature the hub does not have
\* is never changed
desiredPropertiesChangedIfPresent(cloud, local) ==
    cloud # "absent" /\ local.desired # cloud

\* the local desired properties differ from the hub's
desiredPropertiesChangedOnSync(cloud, local) ==
    IF cloud # "absent" THEN local.desired # cloud
    ELSE local.desired \notin {"nil", "empty"}

\* the desired properties desiredPropertiesChangedOnSync leaves in the
\* local feature it reports as changed
cloudDesired(cloud) == IF cloud = "absent" THEN "nil" ELSE cloud

\* a faulty featureNotSynchronizedBeforeUpdate: no feature is marked
\* synchronized after the update
featureNotSynchronizedAlways(data, f) == TRUE

\* the feature was a key of the unsynchronized features read before the loop
featureNotSynchronizedBeforeUpdate(data, f) == data.unsync[f] > 0

\* UpdateLocalDesiredProperties for one local feature; data is the ledger
\* read before the loop
updateLocalFeature(d, data, t, f, cloud) ==
    LET local == d.feat[t][f]
        r     == AddFeature(d, t, f, [local EXCEPT !.desired = cloudDesired(cloud)])
    IN  IF ~local.present \/ ~desiredPropertiesChangedOnSync(cloud, local) THEN d
        ELSE IF r.err # "" THEN d
        ELSE IF ~featureNotSynchronizedBeforeUpdate(data, f)
        THEN FeatureSynchronized(r.db, t, f, 1).db
        ELSE r.db

RECURSIVE updateLocalFeatures(_, _, _, _, _)
updateLocalFeatures(d, data, t, cloudFeatures, fs) ==
    IF fs = {} THEN d
    ELSE LET f == CHOOSE x \in fs : TRUE
         IN  updateLocalFeatures(updateLocalFeature(d, data, t, f, cloudFeatures[f]),
                                 data, t, cloudFeatures, fs \ {f})

UpdateLocalDesiredProperties(d, t, cloudFeatures) ==
    IF t \notin ThingIDs \/ ~d.thing[t].present THEN [db |-> d, err |-> "ThingNotFound"]
    ELSE [db |-> updateLocalFeatures(d, d.sys[t], t, cloudFeatures, prevFeatures(d, t)),
          err |-> ""]

\* FeatureSynchronized of every feature of fs with the counter the drain read
RECURSIVE synchronizeFeatures(_, _, _, _)
synchronizeFeatures(d, t, sys, fs) ==
    IF fs = {} THEN d
    ELSE LET f == CHOOSE x \in fs : TRUE
         IN  synchronizeFeatures(FeatureSynchronized(d, t, f, sys.unsync[f]).db,
                                 t, sys, fs \ {f})

\* the drain publishes: the ledger is dirty and every publish goes through
drains(d, t, isConnected, up) ==
    /\ isConnected
    /\ up
    /\ d.sys[t].present
    /\ UnsyncKeys(d.sys[t]) \cup d.sys[t].deleted # {}

\* a faulty syncThing: the deleted features are not published and the thing
\* is not marked synchronized
syncThingUnsynchronizedOnly(d, t, isConnected, up) ==
    IF drains(d, t, isConnected, up)
    THEN synchronizeFeatures(d, t, d.sys[t], UnsyncKeys(d.sys[t]))
    ELSE d

\* SyncThings(thingID): the database after the drain
syncThing(d, t, isConnected, up) ==
    LET sys == d.sys[t]
        d1  == synchronizeFeatures(d, t, sys, UnsyncKeys(sys))
        d2  == synchronizeFeatures(d1, t, [sys EXCEPT !.unsync = NoUnsync], sys.deleted)
    IN  IF drains(d, t, isConnected, up) THEN ThingSynchronized(d2, t, sys.rev).db
        ELSE d

\* a command the drain publishes upstream: its action, the scope of its path
\* with the feature id, and its value: a feature, a properties map or the
\* feature ids of a merge patch of nulls
SyncCmd(action, scope, f, feature, props, nulls) ==
    [action |-> action, scope |-> scope, f |-> f, feature |-> feature, props |-> props,
     nulls |-> nulls]

\* a faulty featureSyncCmd: the whole feature is always published
featureSyncCmdWhole(f, thingFeature) ==
    SyncCmd("modify", "feature", f, thingFeature, "none", {})

featureSyncCmd(f, thingFeature) ==
    IF thingFeature.desired \in {"nil", "empty"}
    THEN SyncCmd("modify", "feature", f, thingFeature, "none", {})
    ELSE SyncCmd("modify", "properties", f, NoFeature, thingFeature.props, {})

\* the merge command of syncDeletedFeatures
deletedFeaturesCmd(deletedFeaturesPatch) ==
    SyncCmd("merge", "features", "", NoFeature, "none", deletedFeaturesPatch)

\* the commands syncThing publishes for the ledger sys and the features
syncCommands(sys, features) ==
    {featureSyncCmd(f, features[f]) : f \in UnsyncKeys(sys)}
        \cup (IF sys.deleted # {} THEN {deletedFeaturesCmd(sys.deleted)} ELSE {})

\* the error SyncThings(thingID) returns
syncThingsError(d, t, isConnected, up) ==
    IF ~isConnected THEN "ErrNoConnection"
    ELSE IF ~d.sys[t].present THEN "ThingNotFound"
    ELSE IF UnsyncKeys(d.sys[t]) \cup d.sys[t].deleted # {} /\ ~up THEN "ErrNotConnected"
    ELSE ""

\* no SyncThings has run: its error, the ledger and the features it found,
\* the commands it published and the ledger it left
NoSync ==
    [err |-> "", ledger |-> NoSystemThingData, features |-> NoFeatures, commands |-> {},
     left |-> NoSystemThingData]

\* SyncThings(thingID) on database d, with what it did
SyncThings(d, t, isConnected, up) ==
    [err |-> syncThingsError(d, t, isConnected, up),
     ledger |-> d.sys[t], features |-> d.feat[t],
     commands |-> IF drains(d, t, isConnected, up)
                  THEN syncCommands(d.sys[t], d.feat[t]) ELSE {},
     left |-> syncThing(d, t, isConnected, up).sys[t]]

\* the hub's answers to a retrieve command
HubAnswers ==
    [kind : {"ok"}, features : [FeatureIDs -> CloudVals]]
        \cup {[kind |-> "error", features |-> [f \in FeatureIDs |-> "absent"]]}

\* ------------------------------------------------------------------------
\* The local changes no upstream message has carried yet
\* ------------------------------------------------------------------------

BothParts == {"props", "desired"}

PartName(c) == IF c.desired THEN "desired" ELSE "props"

\* after the command's write; d is the database before the command
afterWrite(u, d, c, t) ==
    LET new == {f \in FeatureIDs : c.thing.features[f].present}
        all == [u EXCEPT !.feat = [f \in FeatureIDs |-> IF f \in new THEN BothParts ELSE {}],
                         !.del = (@ \cup prevFeatures(d, t)) \ new]
    IN  CASE c.kind \in {"createThing", "modifyThing"} -> [all EXCEPT !.thing = TRUE]
          [] c.kind = "modifyFeatures" -> all
          [] c.kind = "deleteFeatures" ->
                [u EXCEPT !.feat = [f \in FeatureIDs |-> {}],
                          !.del = @ \cup prevFeatures(d, t)]
          [] c.kind = "modifyFeature" ->
                [u EXCEPT !.feat[c.f] = BothParts, !.del = @ \ {c.f}]
          [] c.kind = "deleteFeature" ->
                [u EXCEPT !.feat[c.f] = {}, !.del = @ \cup {c.f}]
          [] OTHER -> [u EXCEPT !.feat[c.f] = @ \cup {PartName(c)}]

\* after the forward of the command went upstream; u is the value before
\* the command, w the value after its write
afterForwarded(u, w, c) ==
    CASE c.kind \in {"createThing", "modifyThing"} -> NoUnpublished
      [] c.kind \in {"modifyFeatures", "deleteFeatures"} ->
            [w EXCEPT !.feat = [f \in FeatureIDs |-> {}], !.del = {}]
      [] c.kind = "modifyFeature" -> [w EXCEPT !.feat[c.f] = {}]
      [] c.kind = "deleteFeature" -> [w EXCEPT !.del = @ \ {c.f}]
      [] c.kind \in {"modifyProperties", "deleteProperties"} ->
            [w EXCEPT !.feat[c.f] = @ \ {PartName(c)}]
      [] OTHER -> [w EXCEPT !.feat[c.f] = u.feat[c.f]]

\* r is the result of HandleCommand
afterCommand(u, d, c, t, r) ==
    IF ~r.o.wrote THEN u
    ELSE IF r.forward = "ok" THEN afterForwarded(u, afterWrite(u, d, c, t), c)
    ELSE afterWrite(u, d, c, t)

\* after the hub's desired properties were taken over into database d and
\* the drain ran on it
afterResponse(u, d, t, drained) ==
    [u EXCEPT !.feat = [f \in FeatureIDs |->
                            IF drained /\ d.sys[t].unsync[f] > 0 THEN {}
                            ELSE u.feat[f] \ {"desired"}],
              !.del = IF drained THEN @ \ d.sys[t].deleted ELSE @]

\* ------------------------------------------------------------------------
\* The running service: local commands, the connection signals, the
\* lifecycle goroutines and the hub's answers.  ThingIDs holds one thing.
\* ------------------------------------------------------------------------

\* local commands are cut off at this ledger revision
MaxLocalRev == 1

\* the hub connection comes up at most this many times
MaxConnects == 1

CmdThings ==
    {[attrs |-> "a", revision |-> 0,
      features |-> [f \in FeatureIDs |-> IF f \in fs THEN Feature("a", "nil") ELSE NoFeature]] :
        fs \in {{}, {"f1"}, {"f1", "f2"}}}

CmdFeatures == {Feature("a", "nil"), Feature("nil", "a")}

CmdProps == {"a"}

NoThing == [attrs |-> "nil", features |-> NoFeatures, revision |-> 0]

Cmd(k, rr) ==
    [kind |-> k, f |-> "f1", desired |-> FALSE, rr |-> rr, valid |-> TRUE, idOK |-> TRUE,
     thing |-> NoThing, feature |-> Feature("nil", "nil"), props |-> "nil",
     pointer |-> "set"]

\* the commands that require a response
Required ==
    {Cmd(k, TRUE) : k \in {"retrieveThing", "deleteThing", "retrieveFeatures", "deleteFeatures"}}
    \cup {[Cmd(k, TRUE) EXCEPT !.thing = th] :
            k \in {"createThing", "modifyThing", "modifyFeatures"}, th \in CmdThings}
    \cup {[Cmd(k, TRUE) EXCEPT !.valid = FALSE] :
            k \in {"modifyThing", "modifyFeatures", "modifyFeature", "modifyProperties",
                   "modifyProperty"}}
    \cup {[Cmd("createThing", TRUE) EXCEPT !.idOK = FALSE]}
    \cup {[Cmd(k, TRUE) EXCEPT !.f = f] :
            k \in {"retrieveFeature", "deleteFeature"}, f \in FeatureIDs}
    \cup {[Cmd("modifyFeature", TRUE) EXCEPT !.f = f, !.feature = v] :
            f \in FeatureIDs, v \in CmdFeatures}
    \cup {[Cmd(k, TRUE) EXCEPT !.f = f, !.desired = ds] :
            k \in {"retrieveProperties", "deleteProperties", "modifyProperty",
                   "retrieveProperty"},
            f \in FeatureIDs, ds \in BOOLEAN}
    \cup {[Cmd("modifyProperties", TRUE) EXCEPT !.f = f, !.desired = ds, !.props = v] :
            f \in FeatureIDs, ds \in BOOLEAN, v \in CmdProps}
    \cup {[Cmd("deleteProperty", TRUE) EXCEPT !.f = f, !.desired = ds, !.pointer = pt] :
            f \in FeatureIDs, ds \in BOOLEAN, pt \in {"deleted", "emptied"}}
    \cup {[Cmd(k, TRUE) EXCEPT !.desired = ds, !.pointer = "fail"] :
            k \in {"modifyProperty", "retrieveProperty", "deleteProperty"}, ds \in BOOLEAN}

\* the same commands with a response not required, on the first feature
NotRequired ==
    {[c EXCEPT !.rr = FALSE] :
        c \in {r \in Required : r.f = "f1" /\ ~r.desired /\ r.pointer # "fail"}}

Commands == Required \cup NotRequired

\* the commands that store a change when their target exists
Mutations ==
    {c \in Commands :
        /\ c.rr /\ c.valid /\ c.idOK /\ c.pointer # "fail"
        /\ c.kind \notin {"retrieveThing", "retrieveFeatures", "retrieveFeature",
                          "retrieveProperties", "retrieveProperty", "deleteThing"}}

\* what LocalCommand leaves behind; r is the result of HandleCommand
localResult(t, c, r) ==
    /\ db' = r.db
    /\ unpublished' = [unpublished EXCEPT ![t] = afterCommand(@, db, c, t, r)]
    /\ quiet' = (quiet /\ ~r.o.wrote /\ ~r.o.provisioned)

\* HandleCommand of a local message
LocalCommand(t, c) ==
    /\ db.sys[t].rev < MaxLocalRev
    /\ localResult(t, c, HandleCommand(db, c, t, autoProvisioning, link))
    /\ UNCHANGED <<call, start, autoProvisioning, link, connected, cloudResponsesIDs,
                   uuid, routines, requests, last, inbound, started, update, lifecycle,
                   files, handling>>

\* the command on record for a message that is not served
NoCmd == [Cmd("retrieveThing", TRUE) EXCEPT !.kind = "none"]

\* the record of one handled message; r is the result of HandleCommand,
\* form is "command" or the kind of message that is not served
observed(t, c, r, form) ==
    [form |-> form, rr |-> c.rr, action |-> IF form = "command" THEN Action(c) ELSE "",
     response |-> r.o.response, event |-> r.o.event, invalid |-> r.o.invalid,
     returned |-> r.returned, passed |-> r.passed,
     forwardedRR |-> forwardedResponseRequired(c, r.o),
     unchanged |-> r.db = db,
     kind |-> c.kind, thing |-> t, feature |-> c.f, code |-> r.o.code,
     provisioned |-> r.o.provisioned, existed |-> db.thing[t].present,
     eventRevision |-> r.o.eventRevision, written |-> r.o.db.sys[t].rev,
     out |-> r.out, forward |-> r.forward, marked |-> r.marked,
     wrote |-> r.o.wrote,
     guarded |-> \/ c.kind \in {"modifyProperty", "deleteProperty"}
                 \/ c.kind = "deleteProperties" /\ c.desired,
     first |-> r.o.db.sys[t].unsync[c.f] = 1,
     kept |-> r.db.sys = r.o.db.sys,
     db |-> r.db]

\* what ObservedCommand leaves behind; o is the record of the command
observedResult(o) ==
    /\ db' = o.db
    /\ last' = [x \in DOMAIN o \ {"db"} |-> o[x]]

\* HandleCommand of a local message, with what it did on record
ObservedCommand(t, c) ==
    /\ db.sys[t].rev < MaxLocalRev
    /\ observedResult(observed(t, c, HandleCommand(db, c, t, autoProvisioning, link),
                               "command"))
    /\ UNCHANGED <<call, start, autoProvisioning, link, connected, cloudResponsesIDs,
                   uuid, routines, requests, unpublished, quiet, inbound, started,
                   update, lifecycle, files, handling>>

\* HandleCommand of a local message that is not served
ObservedUnserved(t, form) ==
    /\ observedResult(observed(t, NoCmd, HandleUnserved(db, form), form))
    /\ UNCHANGED <<call, start, autoProvisioning, link, connected, cloudResponsesIDs,
                   uuid, routines, requests, unpublished, quiet, inbound, started,
                   update, lifecycle, files, handling>>

\* the connection listener is told Connected(true): a goroutine that sleeps
\* and then runs Start
ConnectionUp ==
    /\ ~link
    /\ routines.signals < MaxConnects
    /\ link' = TRUE
    /\ routines' = [routines EXCEPT !.signals = @ + 1, !.starts = @ + 1]
    /\ quiet' = TRUE
    /\ UNCHANGED <<db, call, start, autoProvisioning, connected, cloudResponsesIDs, uuid,
                   requests, unpublished, last, inbound, started, update, lifecycle,
                   files, handling>>

\* the connection listener is told Connected(false): a goroutine that runs Stop
ConnectionLost ==
    /\ link
    /\ link' = FALSE
    /\ routines' = [routines EXCEPT !.stops = @ + 1]
    /\ UNCHANGED <<db, call, start, autoProvisioning, connected, cloudResponsesIDs, uuid,
                   requests, unpublished, quiet, last, inbound, started, update, lifecycle,
                   files, handling>>

\* Start up to GetThingIDs
StartBegin ==
    /\ routines.starts > 0
    /\ cloudResponsesIDs' = {}
    /\ connected' = TRUE
    /\ routines' = [routines EXCEPT !.starts = @ - 1,
                                    !.retrieving = IF db.ids = {} THEN @ ELSE @ + 1]
    /\ started' = [NotStarted EXCEPT !.done = (db.ids = {}), !.up = link]
    /\ UNCHANGED <<db, call, start, autoProvisioning, link, uuid, requests, unpublished,
                   quiet, last, inbound, update, lifecycle, files, handling>>

\* publishHonoMsg of retrieveDesiredProperties reaches the hub; the envelope
\* is not looked at: the nil envelope of a thing with no features is
\* marshalled (to null) and published like a command
publishesRetrieve(isConnected, up) == isConnected /\ up

\* what retrieveDesiredProperties did for one thing; has: the thing has
\* features, published: its message went upstream
retrieved(s, t, has, isConnected, up) ==
    [s EXCEPT !.done = TRUE,
              !.up = @ /\ isConnected /\ up,
              !.thing[t] =
                  [features |-> has,
                   commands |-> IF has /\ publishesRetrieve(isConnected, up)
                                THEN @.commands + 1 ELSE @.commands,
                   others   |-> IF ~has /\ publishesRetrieve(isConnected, up)
                                THEN @.others + 1 ELSE @.others,
                   recorded |-> IF has THEN @.recorded + 1 ELSE @.recorded]]

\* Start: retrieveDesiredProperties of the thing
StartRetrieve(t) ==
    /\ routines.retrieving > 0
    /\ routines' = [routines EXCEPT !.retrieving = @ - 1]
    /\ IF db.thing[t].present /\ prevFeatures(db, t) # {}
       THEN /\ uuid' = uuid + 1
            /\ cloudResponsesIDs' = cloudResponsesIDs \cup {uuid + 1}
            /\ requests' = IF connected /\ link THEN requests \cup {uuid + 1} ELSE requests
       ELSE UNCHANGED <<uuid, cloudResponsesIDs, requests>>
    /\ started' = IF db.thing[t].present
                  THEN retrieved(started, t, prevFeatures(db, t) # {}, connected, link)
                  ELSE [started EXCEPT !.done = TRUE]
    /\ UNCHANGED <<db, call, start, autoProvisioning, link, connected, unpublished, quiet,
                   last, inbound, update, lifecycle, files, handling>>

\* Stop: the first assignment
StopFlag ==
    /\ routines.stops > 0
    /\ connected' = FALSE
    /\ routines' = [routines EXCEPT !.stops = @ - 1, !.stopping = @ + 1]
    /\ UNCHANGED <<db, call, start, autoProvisioning, link, cloudResponsesIDs, uuid,
                   requests, unpublished, quiet, last, inbound, started, update, lifecycle,
                   files, handling>>

\* Stop: the second assignment
StopMap ==
    /\ routines.stopping > 0
    /\ cloudResponsesIDs' = {}
    /\ routines' = [routines EXCEPT !.stopping = @ - 1]
    /\ UNCHANGED <<db, call, start, autoProvisioning, link, connected, uuid, requests,
                   unpublished, quiet, last, inbound, started, update, lifecycle,
                   files, handling>>

\* the hub answers retrieve command id and the middleware handles the answer
HandleResponse(t, id, answer) ==
    /\ id \in requests
    /\ requests' = requests \ {id}
    /\ LET u == UpdateLocalDesiredProperties(db, t, answer.features)
       IN  IF id \in cloudResponsesIDs /\ answer.kind = "ok" /\ u.err = ""
           THEN /\ cloudResponsesIDs' = cloudResponsesIDs \ {id}
                /\ db' = syncThing(u.db, t, connected, link)
                /\ unpublished' = [unpublished EXCEPT ![t] =
                        afterResponse(@, u.db, t, drains(u.db, t, connected, link))]
           ELSE UNCHANGED <<db, cloudResponsesIDs, unpublished>>
    /\ UNCHANGED <<call, start, autoProvisioning, link, connected, uuid, routines, quiet,
                   last, inbound, started, update, lifecycle, files, handling>>

\* ------------------------------------------------------------------------
\* The response filter: HandleResponse on any inbound hub message.  A
\* message is [decodes, id, thing, kind, parses, features]: the payload is
\* envelope JSON, its correlation id (0: none, or one no retrieve command
\* carries), the thing of its topic, what responseValid makes of it, whether
\* its value unmarshals, and the desired properties it holds.
\* ------------------------------------------------------------------------

\* a thing id of the hub that is not the thing of the pending command
OtherThing == "other"

\* the thing a pending correlation id was recorded for: Start records ids
\* for the things of ThingIDs only, and ThingIDs holds one thing
expectedThingID(id) == CHOOSE t \in ThingIDs : TRUE

Message(id, thing, kind, features) ==
    [decodes |-> TRUE, id |-> id, thing |-> thing, kind |-> kind, parses |-> TRUE,
     features |-> features]

NoCloudFeatures == [f \in FeatureIDs |-> "absent"]

\* the inbound hub messages: the answers to a retrieve command, the same
\* with an errors topic, an unexpected topic, path or status, a value that
\* does not unmarshal or another thing, messages that answer no retrieve
\* command, and a payload that is no envelope
Messages ==
    {Message(id, t, "ok", fs) :
        id \in 1..MaxConnects, t \in ThingIDs, fs \in [FeatureIDs -> CloudVals]}
    \cup {Message(id, t, k, NoCloudFeatures) :
            id \in 0..MaxConnects, t \in ThingIDs \cup {OtherThing},
            k \in {"ok", "error", "unexpected"}}
    \cup {[Message(id, t, "ok", NoCloudFeatures) EXCEPT !.parses = FALSE] :
            id \in 0..MaxConnects, t \in ThingIDs}
    \cup {[Message(0, t, "ok", NoCloudFeatures) EXCEPT !.decodes = FALSE] : t \in ThingIDs}

\* the message goes on to the router; nothing else happens
passedThrough(d, ids) ==
    [db |-> d, ids |-> ids, passed |-> TRUE, err |-> "", applied |-> FALSE,
     removed |-> FALSE, synced |-> FALSE, drained |-> FALSE, updated |-> d,
     sync |-> NoSync]

\* RetrievedProperties: "" for a nil value without error
RetrievedProperties(m) ==
    IF m.kind # "ok" THEN [value |-> FALSE, err |-> ""]
    ELSE IF ~m.parses THEN [value |-> FALSE, err |-> "unmarshal"]
    ELSE [value |-> TRUE, err |-> ""]

\* a faulty HandleResponse: the thing of a pending id is not compared
thingExpectedAlways(id, thing) == TRUE

\* the thing of the message is the one the pending id was recorded for
thingExpected(id, thing) == expectedThingID(id) = thing

\* HandleResponse of a message with a pending id of its thing; u is the
\* result of UpdateLocalDesiredProperties
consumed(d, ids, m, rp, u, isConnected, up) ==
    IF rp.value /\ u.err = ""
    THEN [db |-> syncThing(u.db, m.thing, isConnected, up), ids |-> ids \ {m.id},
          passed |-> FALSE, err |-> "",
          applied |-> TRUE, removed |-> TRUE, synced |-> TRUE,
          drained |-> drains(u.db, m.thing, isConnected, up), updated |-> u.db,
          sync |-> SyncThings(u.db, m.thing, isConnected, up)]
    ELSE [db |-> d, ids |-> ids, passed |-> FALSE,
          err |-> IF rp.value THEN u.err ELSE rp.err,
          applied |-> FALSE, removed |-> FALSE, synced |-> FALSE,
          drained |-> FALSE, updated |-> d, sync |-> NoSync]

\* Synchronizer.HandleResponse: the database and the pending ids after it,
\* and what it did
handleResponse(d, ids, m, isConnected, up) ==
    IF ~m.decodes THEN passedThrough(d, ids)
    ELSE IF m.id \notin ids THEN passedThrough(d, ids)
    ELSE IF ~thingExpected(m.id, m.thing) THEN passedThrough(d, ids)
    ELSE consumed(d, ids, m, RetrievedProperties(m),
                  UpdateLocalDesiredProperties(d, m.thing, m.features),
                  isConnected, up)

\* what Inbound leaves behind; r is the result of handleResponse, pending
\* tells whether the id of the message was in the map when it arrived
inboundResult(m, pending, r) ==
    /\ db' = r.db
    /\ cloudResponsesIDs' = r.ids
    /\ unpublished' = IF r.applied
                      THEN [unpublished EXCEPT ![m.thing] =
                                afterResponse(@, r.updated, m.thing, r.drained)]
                      ELSE unpublished
    /\ inbound' = [seen |-> TRUE, decodes |-> m.decodes, id |-> m.id, thing |-> m.thing,
                   kind |-> m.kind, parses |-> m.parses, pending |-> pending,
                   passed |-> r.passed, err |-> r.err, applied |-> r.applied,
                   removed |-> r.removed, synced |-> r.synced, sync |-> r.sync]

\* a hub message arrives and the middleware handles it; a message that
\* carries the correlation id of a retrieve command answers a published one
Inbound(m) ==
    /\ m.id # 0 => m.id \in requests
    /\ requests' = requests \ {m.id}
    /\ inboundResult(m, m.id \in cloudResponsesIDs,
                     handleResponse(db, cloudResponsesIDs, m, connected, link))
    /\ UNCHANGED <<call, start, autoProvisioning, link, connected, uuid, routines, quiet,
                   last, started, update, lifecycle, files, handling>>

Init ==
    /\ db = EmptyDB
    /\ call = [p \in Procs |-> Idle]
    /\ start = EmptyDB
    /\ autoProvisioning = FALSE
    /\ InitSync

Next ==
    \/ \E t \in ThingIDs, c \in Mutations : LocalCommand(t, c)
    \/ ConnectionUp
    \/ ConnectionLost
    \/ StartBegin
    \/ \E t \in ThingIDs : StartRetrieve(t)
    \/ StopFlag
    \/ StopMap
    \/ \E t \in ThingIDs, id \in 1..MaxConnects, answer \in HubAnswers :
            HandleResponse(t, id, answer)

\* the service
Spec == Init /\ [][Next]_vars

NextSync ==
    \/ \E t \in ThingIDs, c \in Mutations : LocalCommand(t, c)
    \/ ConnectionUp
    \/ ConnectionLost
    \/ StartBegin
    \/ \E t \in ThingIDs : StartRetrieve(t)
    \/ StopFlag
    \/ StopMap
    \/ \E m \in Messages : Inbound(m)

\* the service with every kind of inbound hub message
SpecSync == Init /\ [][NextSync]_vars

InitHandler ==
    /\ db = EmptyDB
    /\ call = [p \in Procs |-> Idle]
    /\ start = EmptyDB
    /\ autoProvisioning \in BOOLEAN
    /\ InitSync

NextHandler ==
    \/ \E t \in ThingIDs, c \in Commands : ObservedCommand(t, c)
    \/ \E t \in ThingIDs, form \in Unserved : ObservedUnserved(t, form)
    \/ ConnectionUp
    \/ ConnectionLost

\* the command handler alone, the hub connection coming and going
SpecHandler == InitHandler /\ [][NextHandler]_vars

\* ------------------------------------------------------------------------
\* Commands handled concurrently, storage call by storage call: the router
\* runs a handler goroutine per message.  A properties map is given by the
\* property names that hold the value of a command.
\* ------------------------------------------------------------------------

PropertyKeys == {"x", "y"}

NilMap == [nil |-> TRUE, keys |-> {}]

Map(keys) == [nil |-> FALSE, keys |-> keys]

\* parser.Wrap(properties).SetJSONPointer(newValue, path) on the map that
\* is created when the feature has none
SetJSONPointer(properties, key) ==
    Map((IF properties.nil THEN {} ELSE properties.keys) \cup {key})

\* a thing with a feature without property maps and one with empty maps
dbProperties ==
    AddThing(EmptyDB, "t1",
             [attrs |-> "a", revision |-> 0,
              features |-> [f \in FeatureIDs |->
                               IF f = "f1" THEN Feature(NilMap, NilMap)
                               ELSE Feature(Map({}), Map({}))]]).db

\* the create command of a handler goroutine
createCmd(h) ==
    [Cmd("createThing", TRUE) EXCEPT
        !.thing = [attrs |-> h.attrs, features |-> NoFeatures, revision |-> 0]]

Answered(h, o) ==
    [h EXCEPT !.pc = "done", !.response = o.response, !.code = o.code]

Handling(p, h) ==
    /\ handling' = [handling EXCEPT ![p] = h]
    /\ UNCHANGED <<call, start, autoProvisioning, link, connected, cloudResponsesIDs,
                   uuid, routines, requests, unpublished, quiet, last, inbound, started,
                   update, lifecycle, files>>

\* the others' commands are answered or not begun
Others(p) == \A q \in Procs \ {p} : handling[q].pc = "done"

BeginCreateThing(p) ==
    \E t \in ThingIDs, a \in AttrVals :
        /\ handling[p].pc = "idle"
        /\ Handling(p, [NotHandling EXCEPT !.pc = "getThingData", !.kind = "createThing",
                                           !.t = t, !.attrs = a, !.after = Others(p)])
        /\ UNCHANGED db

BeginModifyProperty(p) ==
    \E t \in ThingIDs, f \in FeatureIDs, key \in PropertyKeys, desired \in BOOLEAN :
        /\ handling[p].pc = "idle"
        /\ Handling(p, [NotHandling EXCEPT !.pc = "loadFeature", !.kind = "modifyProperty",
                                           !.t = t, !.f = f, !.key = key,
                                           !.desired = desired, !.after = Others(p)])
        /\ UNCHANGED db

\* createThing: Storage.GetThingData
CreateThingGetThingData(p) ==
    /\ handling[p].pc = "getThingData"
    /\ Handling(p, [handling[p] EXCEPT !.pc = "perform",
                                       !.found = db.thing[handling[p].t].present])
    /\ UNCHANGED db

\* createThing: performModifyThing or the conflict error
CreateThingPerform(p) ==
    /\ handling[p].pc = "perform"
    /\ LET h == handling[p]
           o == IF ~h.found THEN performModifyThing(db, createCmd(h), h.t)
                ELSE failed(db, createCmd(h), "thing.conflict")
       IN  db' = o.db /\ Handling(p, Answered(h, o))

\* doPropertyModify: Handler.LoadFeature
PropertyLoadFeature(p) ==
    /\ handling[p].pc = "loadFeature"
    /\ LET h  == handling[p]
           lf == LoadFeature(db, h.t, h.f, autoProvisioning)
       IN  /\ db' = lf.db
           /\ IF lf.ok
              THEN Handling(p, [h EXCEPT !.pc = "addFeature", !.feature = db.feat[h.t][h.f]])
              ELSE Handling(p, Answered(h, featureNotLoaded(lf, Cmd("modifyProperty", TRUE))))

\* doPropertyModify: SetJSONPointer on the loaded feature and Storage.AddFeature
PropertyAddFeature(p) ==
    /\ handling[p].pc = "addFeature"
    /\ LET h == handling[p]
           v == WithPart(h.feature, h.desired,
                         SetJSONPointer(Part(h.feature, h.desired), h.key))
           r == AddFeature(db, h.t, h.f, v)
           c == Cmd("modifyProperty", TRUE)
       IN  /\ db' = r.db
           /\ IF r.err = ""
              THEN Handling(p, Answered(h, stored(r.db, c, h.t, h.f, r.val)))
              ELSE Handling(p, Answered(h, failed(r.db, c, "unknown")))

InitHandlers ==
    /\ db \in {EmptyDB, dbProperties}
    /\ start = db
    /\ call = [p \in Procs |-> Idle]
    /\ autoProvisioning = FALSE
    /\ InitSync

NextHandlers ==
    \/ \E p \in Procs : BeginCreateThing(p)
    \/ \E p \in Procs : BeginModifyProperty(p)
    \/ \E p \in Procs : CreateThingGetThingData(p)
    \/ \E p \in Procs : CreateThingPerform(p)
    \/ \E p \in Procs : PropertyLoadFeature(p)
    \/ \E p \in Procs : PropertyAddFeature(p)

\* one command per handler goroutine, the goroutines running concurrently
SpecHandlers == InitHandlers /\ [][NextHandlers]_vars

\* ------------------------------------------------------------------------
\* UpdateLocalDesiredProperties call by call of the storage, next to the
\* command handler that serves the local commands in its own goroutine.
\* The local event for the stored desired properties changes no state and
\* is left out; no command removes a thing, so the thing stays stored.
\* ------------------------------------------------------------------------

\* the commands stop once the ledger of the thing reached this revision
MaxUpdateRev == 2

\* what a command handled next to the update leaves behind; r is the result
\* of HandleCommand
commandNextToUpdate(t, r) ==
    /\ db' = r.db
    /\ update' = IF update.pc = "idle" THEN update
                 ELSE [update EXCEPT !.alone = FALSE, !.expect = r.db.feat[t]]

\* HandleCommand of a local message before or during the update
ConcurrentCommand(t, c) ==
    /\ update.pc # "done"
    /\ db.sys[t].rev < MaxUpdateRev
    /\ commandNextToUpdate(t, HandleCommand(db, c, t, autoProvisioning, link))
    /\ UNCHANGED <<call, start, autoProvisioning, link, connected, cloudResponsesIDs,
                   uuid, routines, requests, unpublished, quiet, last, inbound, started,
                   lifecycle, files, handling>>

\* UpdateLocalDesiredProperties up to GetThing
UpdateGetThing(t, cloudFeatures) ==
    /\ update.pc = "idle"
    /\ update' = IF ~db.thing[t].present
                 THEN [update EXCEPT !.pc = "done", !.t = t, !.cloud = cloudFeatures,
                                     !.err = "ThingNotFound"]
                 ELSE [update EXCEPT !.pc = "data", !.t = t, !.cloud = cloudFeatures,
                                     !.features = db.feat[t], !.before = db,
                                     !.expect = db.feat[t]]
    /\ UNCHANGED <<db, call, start, autoProvisioning, link, connected, cloudResponsesIDs,
                   uuid, routines, requests, unpublished, quiet, last, inbound, started,
                   lifecycle, files, handling>>

\* GetSystemThingData, before the loop over localThing.Features
UpdateGetSystemThingData ==
    /\ update.pc = "data"
    /\ update' = [update EXCEPT !.pc = "loop", !.data = db.sys[update.t],
                                  !.todo = {f \in FeatureIDs : update.features[f].present}]
    /\ UNCHANGED <<db, call, start, autoProvisioning, link, connected, cloudResponsesIDs,
                   uuid, routines, requests, unpublished, quiet, last, inbound, started,
                   lifecycle, files, handling>>

\* the feature GetFeature leaves in localFeature: the stored one, or the one
\* GetThing loaded when the feature is gone
reloaded(d, t, f, loaded) == IF d.feat[t][f].present THEN d.feat[t][f] ELSE loaded

\* one iteration up to desiredPropertiesChangedOnSync, for a feature in
\* the order of the map
UpdateGetFeature(f) ==
    /\ update.pc = "loop"
    /\ f \in update.todo
    /\ update' =
         IF desiredPropertiesChangedOnSync(update.cloud[f],
                                           reloaded(db, update.t, f, update.features[f]))
         THEN [update EXCEPT
                 !.pc = "add", !.f = f,
                 !.local = [reloaded(db, update.t, f, update.features[f])
                                EXCEPT !.desired = cloudDesired(update.cloud[f])]]
         ELSE [update EXCEPT !.todo = @ \ {f}]
    /\ UNCHANGED <<db, call, start, autoProvisioning, link, connected, cloudResponsesIDs,
                   uuid, routines, requests, unpublished, quiet, last, inbound, started,
                   lifecycle, files, handling>>

\* what AddFeature of the iteration leaves behind; r is its result
updateStored(r) ==
    /\ db' = r.db
    /\ update' =
         IF r.err # "" THEN [update EXCEPT !.pc = "loop", !.todo = @ \ {update.f}]
         ELSE [update EXCEPT
                 !.pc = IF featureNotSynchronizedBeforeUpdate(update.data, update.f)
                        THEN "loop" ELSE "sync",
                 !.todo = IF featureNotSynchronizedBeforeUpdate(update.data, update.f)
                          THEN @ \ {update.f} ELSE @,
                 !.changed = @ \cup {update.f},
                 !.expect[update.f].desired = update.local.desired]

\* AddFeature of the changed local feature
UpdateAddFeature ==
    /\ update.pc = "add"
    /\ updateStored(AddFeature(db, update.t, update.f, update.local))
    /\ UNCHANGED <<call, start, autoProvisioning, link, connected, cloudResponsesIDs,
                   uuid, routines, requests, unpublished, quiet, last, inbound, started,
                   lifecycle, files, handling>>

\* FeatureSynchronized of a feature that was synchronized before the update
UpdateFeatureSynchronized ==
    /\ update.pc = "sync"
    /\ db' = FeatureSynchronized(db, update.t, update.f, 1).db
    /\ update' = [update EXCEPT !.pc = "loop", !.todo = @ \ {update.f}]
    /\ UNCHANGED <<call, start, autoProvisioning, link, connected, cloudResponsesIDs,
                   uuid, routines, requests, unpublished, quiet, last, inbound, started,
                   lifecycle, files, handling>>

\* the loop is over: UpdateLocalDesiredProperties returns nil
UpdateReturn ==
    /\ update.pc = "loop"
    /\ update.todo = {}
    /\ update' = [update EXCEPT !.pc = "done"]
    /\ UNCHANGED <<db, call, start, autoProvisioning, link, connected, cloudResponsesIDs,
                   uuid, routines, requests, unpublished, quiet, last, inbound, started,
                   lifecycle, files, handling>>

NextUpdate ==
    \/ \E t \in ThingIDs, c \in Mutations : ConcurrentCommand(t, c)
    \/ ConnectionUp
    \/ ConnectionLost
    \/ \E t \in ThingIDs, fs \in [FeatureIDs -> CloudVals] : UpdateGetThing(t, fs)
    \/ UpdateGetSystemThingData
    \/ \E f \in FeatureIDs : UpdateGetFeature(f)
    \/ UpdateAddFeature
    \/ UpdateFeatureSynchronized
    \/ UpdateReturn

\* one UpdateLocalDesiredProperties next to the command handler
SpecUpdate == Init /\ [][NextUpdate]_vars

\* ------------------------------------------------------------------------
\* Start and Stop called one after the other, each call running to its end,
\* next to the command handler.  A synchronizer s is [connected, ids, uuid]:
\* the flag, the keys of cloudResponsesIDs and the correlation ids generated.
\* ------------------------------------------------------------------------

\* Start and Stop are called at most this many times
MaxCalls == 3

\* a faulty Stop: the pending map is kept
StopConnectedOnly(s) == [s EXCEPT !.connected = FALSE]

Stop(s) == [s EXCEPT !.connected = FALSE, !.ids = {}]

\* the things retrieveDesiredProperties reaches before it returns: all of
\* them when every publish goes through, else only the first of GetThingIDs
retrieving(d, up, first) == IF up THEN d.ids ELSE d.ids \cap {first}

\* Start: the map is replaced, the flag set and a correlation id recorded for
\* each thing with features that retrieveDesiredProperties reaches; ThingIDs
\* holds one thing, so at most one id is generated
Start(s, d, up, first) ==
    IF \E t \in retrieving(d, up, first) : prevFeatures(d, t) # {}
    THEN [connected |-> TRUE, ids |-> {s.uuid + 1}, uuid |-> s.uuid + 1]
    ELSE [connected |-> TRUE, ids |-> {}, uuid |-> s.uuid]

\* the connected flag and the things awaiting a response
View(s) == [connected |-> s.connected, things |-> {expectedThingID(i) : i \in s.ids}]

\* what a call of Start or Stop leaves behind; s is the synchronizer after it
called(op, s, first) ==
    /\ connected' = s.connected
    /\ cloudResponsesIDs' = s.ids
    /\ uuid' = s.uuid
    /\ lifecycle' = [calls |-> lifecycle.calls + 1, op |-> op, view |-> View(s),
                     db |-> db, up |-> link, first |-> first,
                     prev |-> [op |-> lifecycle.op, view |-> lifecycle.view,
                               db |-> lifecycle.db, up |-> lifecycle.up,
                               first |-> lifecycle.first]]

\* Synchronizer.Start, from its first statement to its return
CallStart(first) ==
    /\ lifecycle.calls < MaxCalls
    /\ first \in db.ids \/ (db.ids = {} /\ first = "")
    /\ called("Start",
              Start([connected |-> connected, ids |-> cloudResponsesIDs, uuid |-> uuid],
                    db, link, first),
              first)
    /\ UNCHANGED <<db, call, start, autoProvisioning, link, routines, requests,
                   unpublished, quiet, last, inbound, started, update, files, handling>>

\* Synchronizer.Stop
CallStop ==
    /\ lifecycle.calls < MaxCalls
    /\ called("Stop", Stop([connected |-> connected, ids |-> cloudResponsesIDs,
                            uuid |-> uuid]), "")
    /\ UNCHANGED <<db, call, start, autoProvisioning, link, routines, requests,
                   unpublished, quiet, last, inbound, started, update, files, handling>>

NextLifecycle ==
    \/ \E t \in ThingIDs, c \in Mutations : LocalCommand(t, c)
    \/ ConnectionUp
    \/ ConnectionLost
    \/ \E first \in ThingIDs \cup {""} : CallStart(first)
    \/ CallStop

\* Start and Stop called in any order, the storage and the link changing
SpecLifecycle == Init /\ [][NextLifecycle]_vars

\* ------------------------------------------------------------------------
\* Properties
\* ------------------------------------------------------------------------

\* C1: in every persisted ledger no feature id is both a key of
\* unsynchronizedFeatures and a member of deletedFeatures, whatever the
\* interleaving of the storage calls
LedgerSetsDisjoint ==
    \A t \in ThingIDs : UnsyncKeys(db.sys[t]) \cap db.sys[t].deleted = {}

\* a RemoveFeature has returned and the ledger holds a deleted feature next
\* to an unsynchronized one
LedgerSetsBothUsed ==
    /\ \E p \in Procs : call[p].op = "RemoveFeature" /\ call[p].pc = "done" /\ call[p].err = ""
    /\ \E t \in ThingIDs : db.sys[t].deleted # {} /\ UnsyncKeys(db.sys[t]) # {}

\* C2: when the concurrent storage calls of a round have returned, the
\* database and the returned results are those of running the calls one
\* after the other in some order
StorageSerializable ==
    AllReturned => (SerialOutcome("p1", "p2") \/ SerialOutcome("p2", "p1"))

\* C6: no transaction replaces the persisted ledger revision of a thing by
\* a lower one
RevisionMonotonic ==
    [][\A t \in ThingIDs :
          (db.sys[t].present /\ db'.sys[t].present) => db'.sys[t].rev >= db.sys[t].rev]_vars

\* C3: every stored feature with a local change that no upstream message
\* has carried yet has a positive counter in unsynchronizedFeatures
UnpublishedChangeCounted ==
    \A t \in ThingIDs, f \in FeatureIDs :
        (db.feat[t][f].present /\ unpublished[t].feat[f] # {}) => db.sys[t].unsync[f] > 0

\* Connected(true) was signalled, the link is still up, every lifecycle
\* goroutine has finished, every retrieve command has been answered and
\* handled, and no command has written since the signal
Settled ==
    /\ link
    /\ quiet
    /\ routines.signals > 0
    /\ routines.starts = 0 /\ routines.retrieving = 0
    /\ routines.stops = 0 /\ routines.stopping = 0
    /\ requests = {}

\* C4: once the service has settled after a connect, both
\* unsynchronizedFeatures and deletedFeatures of every thing are empty
DirtyLedgerDrained ==
    Settled => \A t \in ThingIDs : UnsyncKeys(db.sys[t]) = {} /\ db.sys[t].deleted = {}

\* C5: once the service has settled after a connect, every local mutation
\* made before has been carried by a message published upstream
MutationsForwarded ==
    Settled => \A t \in ThingIDs : unpublished[t] = NoUnpublished

\* C7 as stated: a command that stored a change is marked synchronized if
\* and only if its forward succeeded, and a failed forward leaves the ledger
\* the command wrote
MarkedIffForwarded ==
    /\ last.wrote => (last.marked <=> last.forward = "ok")
    /\ last.forward # "ok" => last.kept

\* C7: the handler calls a synchronized mark only after a successful forward
\* of a command that stored a change; after a successful forward it does so
\* unless the command is a single-property one or a delete of the desired
\* properties whose write left the feature's counter different from 1; a
\* forward that did not succeed leaves the ledger the command wrote
MarkedOnlyIfForwarded ==
    /\ last.marked => (last.wrote /\ last.forward = "ok")
    /\ (last.wrote /\ last.forward = "ok") =>
            (last.marked <=> (~last.guarded \/ last.first))
    /\ last.forward # "ok" => last.kept

\* a single-property command went upstream and was not marked, the counter
\* of its feature being above 1
ForwardedNotMarked ==
    last.wrote /\ last.forward = "ok" /\ last.guarded /\ ~last.first /\ ~last.marked

\* the lifecycle goroutines have all finished after a Connected(false)
Disconnected ==
    /\ ~link
    /\ routines.signals > 0
    /\ routines.starts = 0 /\ routines.retrieving = 0
    /\ routines.stops = 0 /\ routines.stopping = 0

\* C8: when Connected(false) is the last signal and the lifecycle goroutines
\* have finished, the synchronizer is stopped: the connected flag is false
\* and the correlation map is empty
StoppedAfterDisconnect ==
    Disconnected => (~connected /\ cloudResponsesIDs = {})

\* C9: at most one of Start and Stop is between its accesses to the
\* connected flag and the correlation map
SynchronizerExclusive ==
    routines.retrieving + routines.stopping <= 1

\* the place of a message in the order response, event, forward
Rank(m) ==
    CASE m = "provisioned" -> 0
      [] m = "response" -> 1
      [] m = "event" -> 2
      [] m = "forward" -> 3

\* C10 as stated: the messages of a command go out in the order response,
\* event, forward, no event before the response
ResponseBeforeEvents ==
    \A i, j \in 1..Len(last.out) :
        i < j => (IF last.out[i] = "provisioned" THEN 2 ELSE Rank(last.out[i]))
                    < Rank(last.out[j])

\* C10: the response of a command goes out before its event and both before
\* the forward; only the thing created event of auto-provisioning goes out
\* before the response
OutputsOrdered ==
    \A i, j \in 1..Len(last.out) : i < j => Rank(last.out[i]) < Rank(last.out[j])

\* a command on an unknown thing published the created event of
\* auto-provisioning, its response, its event and its forward
AllOutputsPublished ==
    last.out = <<"provisioned", "response", "event", "forward">>

\* C11 as stated: an inbound hub message is consumed if its envelope
\* carries a correlation id that is in the pending map, and is passed
\* through to the router in every other case
ConsumedIffPending ==
    inbound.seen => (~inbound.passed <=> (inbound.decodes /\ inbound.pending))

\* C11: an inbound hub message is consumed exactly if its envelope carries
\* a correlation id that is in the pending map and the thing of its topic
\* is the thing that id was recorded for; every other message is passed
\* through to the router
ConsumedIffPendingOfThing ==
    inbound.seen =>
        (~inbound.passed <=> /\ inbound.decodes
                             /\ inbound.pending
                             /\ inbound.thing = expectedThingID(inbound.id))

\* a message with a pending id and another thing was passed through
PendingOfOtherThingPassed ==
    /\ inbound.seen /\ inbound.decodes /\ inbound.pending
    /\ inbound.thing = OtherThing
    /\ inbound.passed

\* C12: when the response to a pending correlation id of its thing is a
\* valid retrieve response or an errors envelope (no update), the id has
\* been removed from the pending map and SyncThings has been called for
\* the thing
AppliedResponseRemovedAndDrained ==
    (/\ inbound.seen /\ inbound.decodes /\ inbound.pending
     /\ inbound.thing = expectedThingID(inbound.id)
     /\ \/ inbound.kind = "ok" /\ inbound.parses
        \/ inbound.kind = "error")
        => (inbound.removed /\ inbound.synced)

\* C13: after a Start that ran to its end with the synchronizer connected
\* and the hub link up, one retrieve command has been published and one
\* correlation id recorded for every thing with features, and nothing has
\* been published or recorded for a thing with no features
StartPublishedPerThing ==
    (started.done /\ started.up) =>
        \A t \in ThingIDs :
            LET s == started.thing[t]
            IN  IF s.features
                THEN s.commands = 1 /\ s.recorded = 1 /\ s.others = 0
                ELSE s.commands = 0 /\ s.recorded = 0 /\ s.others = 0

\* C14: for a command with response-required=false the handler publishes
\* no response envelope and no error envelope, whatever the outcome
NoResponseUnlessRequired ==
    (last.form = "command" /\ ~last.rr) =>
        \A i \in DOMAIN last.out : last.out[i] # "response"

\* C15: for a served command with response-required=false the event of a
\* successful mutation is published locally and the command is handed to
\* the upstream publisher
EventAndForwardWithoutResponse ==
    (last.form = "command" /\ ~last.rr) =>
        /\ last.wrote => \E i \in DOMAIN last.out : last.out[i] = "event"
        /\ last.forward # "none"

ProtocolErrorsNotReturned ==
    last.form = "command" => last.returned = ""

\* C18: for a payload that is no envelope JSON, or a twin command with a
\* path of unknown scope, HandleCommand returns an error to the router,
\* publishes no response and no event, forwards nothing and changes
\* nothing in the storage
MalformedRejected ==
    last.form \in {"invalidPayload", "unknownPath"} =>
        /\ last.returned # "" /\ ~last.passed
        /\ last.out = <<>> /\ last.forward = "none"
        /\ last.unchanged /\ ~last.marked

\* a command with a path of unknown scope was rejected on a stored thing
UnknownPathRejected ==
    last.form = "unknownPath" /\ last.returned # "" /\ db.ids # {}

\* C19: a message that is not twin/commands, or whose scope and action have
\* no command function, is returned to the router as the only output: no
\* response, no event, no forward, no error and no change of the storage
UnservedPassedThrough ==
    last.form \in {"notTwinCommand", "unsupported"} =>
        /\ last.passed /\ last.returned = ""
        /\ last.out = <<>> /\ last.forward = "none"
        /\ last.unchanged /\ ~last.marked

\* an unsupported command was returned to the router on a stored thing
UnsupportedPassedOn ==
    last.form = "unsupported" /\ last.passed /\ db.ids # {}

\* C20: with auto-provisioning disabled a command answered with an error
\* envelope leaves the thing data, every feature and the ledger as they were
ErrorLeavesStorage ==
    (~autoProvisioning /\ last.form = "command" /\ last.response = "error")
        => last.unchanged

\* a delete on a stored thing was answered with an error envelope
DeleteAnsweredWithError ==
    /\ ~autoProvisioning /\ db.ids # {}
    /\ last.form = "command" /\ last.action = "delete" /\ last.response = "error"

LoadsTarget ==
    {"retrieveFeatures", "deleteFeatures", "retrieveFeature", "deleteFeature",
     "modifyProperties", "retrieveProperties", "deleteProperties",
     "modifyProperty", "retrieveProperty", "deleteProperty"}

\* the thing of the last command as auto-provisioning stores it
ProvisionedEmpty ==
    /\ last.provisioned /\ Len(last.out) > 0 /\ last.out[1] = "provisioned"
    /\ last.thing \in db.ids
    /\ db.thing[last.thing] = [present |-> TRUE, attrs |-> "nil"]

EventCarriesWrittenRevision ==
    (last.form = "command" /\ last.wrote /\ last.event)
        => last.eventRevision = last.written

\* C23 for the commands whose event is built by Handler.eventEnvelope
FeatureEventCarriesWrittenRevision ==
    (/\ last.form = "command" /\ last.wrote /\ last.event
     /\ last.kind \notin {"createThing", "modifyThing"})
        => last.eventRevision = last.written

\* UpdateLocalDesiredProperties has returned nil and no command was handled
\* while it ran
UpdatedAlone == update.pc = "done" /\ update.err = "" /\ update.alone

\* the storage calls of an update that ran alone add up to the whole call
UpdateStepsAsWhole ==
    UpdatedAlone => db = UpdateLocalDesiredProperties(update.before, update.t, update.cloud).db

\* C24: after UpdateLocalDesiredProperties has returned nil every stored
\* feature of the thing has the desired properties of its entry in
\* cloudFeatures, and none (or an empty map) when it has no entry there
DesiredPropertiesTakenOver ==
    UpdatedAlone =>
        \A f \in prevFeatures(db, update.t) :
            IF update.cloud[f] # "absent"
            THEN db.feat[update.t][f].desired = update.cloud[f]
            ELSE db.feat[update.t][f].desired \in {"nil", "empty"}

\* an update stored the hub's desired properties in one feature and removed
\* those of a feature the hub does not have
DesiredPropertiesStoredAndRemoved ==
    /\ UpdatedAlone
    /\ \E f \in update.changed :
          update.cloud[f] = "a" /\ db.feat[update.t][f].desired = "a"
    /\ \E f \in update.changed :
          /\ update.cloud[f] = "absent"
          /\ update.before.feat[update.t][f].desired = "a"
          /\ db.feat[update.t][f].desired = "nil"

\* C25: a feature UpdateLocalDesiredProperties stored is a key of the
\* unsynchronized features after the call exactly if it was one before it
ChangedFeatureKeepsSyncState ==
    UpdatedAlone =>
        \A f \in update.changed :
            (update.before.sys[update.t].unsync[f] = 0) <=> (db.sys[update.t].unsync[f] = 0)

\* an update stored a feature that was synchronized and one that was not
SyncedAndUnsyncedFeatureChanged ==
    /\ UpdatedAlone
    /\ \E f \in update.changed : update.before.sys[update.t].unsync[f] = 0
    /\ \E f \in update.changed : update.before.sys[update.t].unsync[f] > 0

\* C26: UpdateLocalDesiredProperties creates and removes no feature and
\* leaves the properties of every feature as the commands stored them, also
\* those of a command handled while it runs; a feature whose desired
\* properties equal the hub's is left as it was, with its ledger entry
UpdateChangesOnlyDesired ==
    (update.pc # "idle" /\ update.err = "") =>
        /\ \A f \in FeatureIDs :
              /\ db.feat[update.t][f].present = update.expect[f].present
              /\ db.feat[update.t][f].props = update.expect[f].props
        /\ UpdatedAlone =>
              \A f \in FeatureIDs \ update.changed :
                  /\ db.feat[update.t][f] = update.before.feat[update.t][f]
                  /\ db.sys[update.t].unsync[f] = update.before.sys[update.t].unsync[f]

\* C26 for an update that runs alone
UpdateAloneChangesOnlyDesired ==
    (update.pc # "idle" /\ update.err = "" /\ update.alone) =>
        /\ \A f \in FeatureIDs :
              /\ db.feat[update.t][f].present = update.before.feat[update.t][f].present
              /\ db.feat[update.t][f].props = update.before.feat[update.t][f].props
        /\ update.pc = "done" =>
              \A f \in FeatureIDs \ update.changed :
                  /\ db.feat[update.t][f] = update.before.feat[update.t][f]
                  /\ db.sys[update.t].unsync[f] = update.before.sys[update.t].unsync[f]

\* SyncThings ran after the last inbound message and returned nil
Synchronized == inbound.applied /\ inbound.synced /\ inbound.sync.err = ""

\* C27: after SyncThings has returned nil for a thing, no command writing
\* meanwhile, the ledger of the thing has no unsynchronized feature and no
\* deleted feature
LedgerCleanAfterSyncThings ==
    Synchronized =>
        /\ UnsyncKeys(inbound.sync.left) = {}
        /\ inbound.sync.left.deleted = {}

\* SyncThings returned nil on a ledger with an unsynchronized and a deleted
\* feature
DirtyLedgerSynchronized ==
    /\ Synchronized
    /\ UnsyncKeys(inbound.sync.ledger) # {}
    /\ inbound.sync.ledger.deleted # {}

\* C28: a SyncThings that returns nil publishes one modify command for each
\* unsynchronized feature and no other modify command: the whole feature at
\* /features/<f> when the feature has no desired properties, else only its
\* properties at /features/<f>/properties; it publishes one merge command
\* at /features with a null for each deleted feature exactly if there are
\* deleted features; on a clean ledger it publishes nothing
OneCommandPerLedgerEntry ==
    Synchronized =>
        LET sys      == inbound.sync.ledger
            features == inbound.sync.features
            cmds     == inbound.sync.commands
            modifies == {c \in cmds : c.action = "modify"}
            merges   == {c \in cmds : c.action = "merge"}
        IN  /\ cmds = modifies \cup merges
            /\ Cardinality(modifies) = Cardinality(UnsyncKeys(sys))
            /\ \A f \in UnsyncKeys(sys) :
                  \E c \in modifies :
                      /\ c.f = f
                      /\ IF features[f].desired \in {"nil", "empty"}
                         THEN c.scope = "feature" /\ c.feature = features[f]
                         ELSE c.scope = "properties" /\ c.props = features[f].props
            /\ Cardinality(merges) = IF sys.deleted # {} THEN 1 ELSE 0
            /\ \A c \in merges : c.scope = "features" /\ c.nulls = sys.deleted
            /\ (UnsyncKeys(sys) = {} /\ sys.deleted = {}) => cmds = {}

\* SyncThings published the properties of a feature with desired
\* properties, a whole feature and a merge command
PropertiesFeatureAndMergePublished ==
    /\ Synchronized
    /\ \E c \in inbound.sync.commands : c.scope = "properties"
    /\ \E c \in inbound.sync.commands : c.scope = "features"

\* SyncThings published a whole feature
WholeFeaturePublished ==
    Synchronized /\ \E c \in inbound.sync.commands : c.scope = "feature"

\* the last two calls were the same call on the same storage and link
CalledTwice(op) ==
    /\ lifecycle.op = op /\ lifecycle.prev.op = op
    /\ lifecycle.db = lifecycle.prev.db
    /\ lifecycle.up = lifecycle.prev.up
    /\ lifecycle.first = lifecycle.prev.first

\* C29: Stop leaves no thing awaiting a response and the synchronizer
\* stopped; a second Start right after a Start, and a second Stop right
\* after a Stop, leave the connected flag and the set of things awaiting a
\* response as the first one left them
StartStopIdempotent ==
    /\ lifecycle.op = "Stop" =>
          /\ ~connected /\ cloudResponsesIDs = {}
          /\ lifecycle.view = [connected |-> FALSE, things |-> {}]
    /\ lifecycle.op = "Start" => connected
    /\ (CalledTwice("Start") \/ CalledTwice("Stop")) =>
          lifecycle.view = lifecycle.prev.view

\* Start ran twice in succession with a thing awaiting its response, and
\* the pending correlation id is the one of the second run
StartedTwiceWithPending ==
    /\ CalledTwice("Start")
    /\ lifecycle.view.things # {}
    /\ cloudResponsesIDs = {uuid} /\ uuid >= 2

\* Stop ran twice in succession after a Start had left a thing waiting
StoppedTwiceAfterStart ==
    CalledTwice("Stop") /\ uuid >= 1

\* caller p has returned from FeatureSynchronized without error and was the
\* only caller of the round
SynchronizedAlone(p) ==
    /\ call[p].op = "FeatureSynchronized" /\ call[p].pc = "done" /\ call[p].err = ""
    /\ \A q \in Procs \ {p} : call[q].op = "idle"

DeletedFeatureSynchronized ==
    \E p \in Procs :
        /\ SynchronizedAlone(p) /\ call[p].val = 1
        /\ call[p].f \in start.sys[call[p].t].deleted
        /\ call[p].f \notin db.sys[call[p].t].deleted

\* the last storage call was op and returned without an error
Returned(op) ==
    call["p1"].op = op /\ call["p1"].pc = "done" /\ call["p1"].err = ""

\* C31: ThingSynchronized(id, r) returns true and leaves deletedFeatures and
\* unsynchronizedFeatures empty when r is the ledger revision of the thing;
\* otherwise it returns false and leaves the ledger as it was; the revision
\* and the rest of the storage are untouched in both cases
ThingSynchronizedByRevision ==
    Returned("ThingSynchronized") =>
        LET t   == call["p1"].t
            sys == start.sys[t]
        IN  /\ db.thing = start.thing /\ db.feat = start.feat /\ db.ids = start.ids
            /\ call["p1"].revision = sys.rev =>
                    /\ call["p1"].val = 1
                    /\ db.sys[t] = [sys EXCEPT !.deleted = {}, !.unsync = NoUnsync]
            /\ call["p1"].revision # sys.rev =>
                    call["p1"].val = 0 /\ db.sys = start.sys

\* ThingSynchronized cleared a ledger that held a deleted and an
\* unsynchronized feature
DirtyLedgerCleared ==
    /\ Returned("ThingSynchronized") /\ call["p1"].val = 1
    /\ start.sys[call["p1"].t].deleted # {}
    /\ UnsyncKeys(start.sys[call["p1"].t]) # {}

\* ThingSynchronized refused a revision that is not the ledger's
StaleRevisionRefused ==
    /\ Returned("ThingSynchronized") /\ call["p1"].val = 0
    /\ start.sys[call["p1"].t].deleted # {}
    /\ UnsyncKeys(start.sys[call["p1"].t]) # {}

\* C32: a successful AddFeature of feature f leaves the unsynchronized
\* counter of f at its value before the call (0 when f had no entry) plus 1,
\* leaves f out of deletedFeatures and returns the new counter; the feature
\* is stored and the other ledger entries stay as they were
AddFeatureCountsUp ==
    Returned("AddFeature") =>
        LET t   == call["p1"].t
            f   == call["p1"].f
            sys == start.sys[t]
        IN  /\ db.sys[t].unsync[f] = sys.unsync[f] + 1
            /\ f \notin db.sys[t].deleted
            /\ call["p1"].val = db.sys[t].unsync[f]
            /\ db.feat[t][f] = call["p1"].v
            /\ \A g \in FeatureIDs \ {f} :
                  /\ db.sys[t].unsync[g] = sys.unsync[g]
                  /\ (g \in db.sys[t].deleted) = (g \in sys.deleted)

\* AddFeature stored a feature that already had an unsynchronized entry
CountedFeatureAddedAgain ==
    /\ Returned("AddFeature")
    /\ start.sys[call["p1"].t].unsync[call["p1"].f] > 0
    /\ call["p1"].val > 1

\* AddFeature stored a feature that was marked deleted
DeletedFeatureAddedAgain ==
    /\ Returned("AddFeature")
    /\ call["p1"].f \in start.sys[call["p1"].t].deleted

\* C33: a successful RemoveFeature of a stored feature f removes the
\* feature, puts f in deletedFeatures and removes f from
\* unsynchronizedFeatures, whatever its counter was; the other features and
\* ledger entries stay as they were
RemoveFeatureMarksDeleted ==
    Returned("RemoveFeature") =>
        LET t   == call["p1"].t
            f   == call["p1"].f
            sys == start.sys[t]
        IN  /\ start.feat[t][f].present
            /\ ~db.feat[t][f].present
            /\ f \in db.sys[t].deleted
            /\ db.sys[t].unsync[f] = 0
            /\ \A g \in FeatureIDs \ {f} :
                  /\ db.feat[t][g] = start.feat[t][g]
                  /\ db.sys[t].unsync[g] = sys.unsync[g]
                  /\ (g \in db.sys[t].deleted) = (g \in sys.deleted)

\* RemoveFeature removed a feature whose counter was above 1
CountedFeatureRemoved ==
    /\ Returned("RemoveFeature")
    /\ start.sys[call["p1"].t].unsync[call["p1"].f] > 1

\* RemoveFeature removed a feature that had no unsynchronized entry
SynchronizedFeatureRemoved ==
    /\ Returned("RemoveFeature")
    /\ start.sys[call["p1"].t].unsync[call["p1"].f] = 0

\* the last storage call was an AddThing of a thing that was stored
ThingReplaced ==
    /\ Returned("AddThing")
    /\ start.thing[call["p1"].t].present
    /\ start.sys[call["p1"].t].present

\* C34: after AddThing(t) on an existing thing, deletedFeatures holds the
\* features that were stored or marked deleted before the call and are not
\* in t, and no other; unsynchronizedFeatures holds exactly the features of
\* t, each with counter 1
AddThingRecomputesLedger ==
    ThingReplaced =>
        LET t   == call["p1"].t
            new == {f \in FeatureIDs : call["p1"].thing.features[f].present}
            old == {f \in FeatureIDs : start.feat[t][f].present}
        IN  /\ db.sys[t].deleted = (old \cup start.sys[t].deleted) \ new
            /\ \A f \in FeatureIDs :
                  db.sys[t].unsync[f] = IF f \in new THEN 1 ELSE 0
            /\ db.feat[t] = call["p1"].thing.features

\* AddThing replaced a thing with a counted feature it keeps, and left out
\* a feature that was stored
CountedFeatureReplaced ==
    /\ ThingReplaced
    /\ \E f \in FeatureIDs :
          /\ start.sys[call["p1"].t].unsync[f] > 1
          /\ call["p1"].thing.features[f].present
    /\ \E f \in FeatureIDs :
          /\ start.feat[call["p1"].t][f].present
          /\ ~call["p1"].thing.features[f].present

\* AddThing replaced a thing with a deleted feature that the new thing
\* holds, and with one that it does not hold
DeletedFeatureReplaced ==
    /\ ThingReplaced
    /\ \E f \in start.sys[call["p1"].t].deleted : call["p1"].thing.features[f].present
    /\ \E f \in start.sys[call["p1"].t].deleted : ~call["p1"].thing.features[f].present

\* C35: every successful AddThing, AddFeature and RemoveFeature leaves the
\* ledger revision of the thing at its value before the call plus 1, where
\* a thing that was not stored counts with the revision of the added thing
\* minus 1; AddThing returns the revision it left
WriteBumpsRevision ==
    LET t == call["p1"].t
    IN  /\ (Returned("AddFeature") \/ Returned("RemoveFeature") \/ ThingReplaced) =>
              db.sys[t].rev = start.sys[t].rev + 1
        /\ (Returned("AddThing") /\ ~ThingReplaced) =>
              db.sys[t].rev = (call["p1"].thing.revision - 1) + 1
        /\ Returned("AddThing") => call["p1"].val = db.sys[t].rev

\* an AddThing of a new thing with a revision other than 0, a following
\* AddFeature or RemoveFeature, and an AddThing of a stored thing
NewThingAdded ==
    /\ Returned("AddThing") /\ ~ThingReplaced
    /\ call["p1"].thing.revision # 0

FeatureWrittenLater ==
    /\ (Returned("AddFeature") \/ Returned("RemoveFeature"))
    /\ start.sys[call["p1"].t].rev > 0

StoredThingAddedLater ==
    ThingReplaced /\ start.sys[call["p1"].t].rev > 0

\* C36: whenever no AddThing or RemoveThing call is in progress, the thing
\* ids GetThingIDs returns are exactly the thing ids GetThing succeeds for,
\* also after calls for different thing ids that ran concurrently
ThingIDsAreTheThings ==
    (\A p \in Procs : call[p].pc \in {"idle", "done"}) =>
        db.ids = {t \in DOMAIN db.thing : GetThingSucceeds(db, t)}

\* the same for storage calls made one after the other
ThingIDsAreTheThingsAlone ==
    db.ids = {t \in ThingIDs : GetThingSucceeds(db, t)}

\* the last NewThingsDB found a store file bound to another device
OpenedOnDeviceChange ==
    /\ files.opened.before.exists
    /\ Len(files.opened.before.name) > 0
    /\ files.opened.before.name # files.opened.deviceID

\* C37: NewThingsDB with device id D2 on a store file bound to another
\* device D1 returns no error and one open store; the store file is a fresh
\* one bound to D2 that holds no thing, and the content it found is in a
\* backup file
StoreReboundOnDeviceChange ==
    OpenedOnDeviceChange =>
        /\ ~files.opened.err
        /\ files.opened.open = 1
        /\ files.opened.after = File(files.opened.deviceID, {})
        /\ \E suffix \in DOMAIN files.opened.backup :
              files.opened.backup[suffix] = files.opened.before

\* a store with a thing was opened for another device and backed up under
\* the device id it was bound to
StoreWithThingRebound ==
    /\ OpenedOnDeviceChange
    /\ files.opened.before.things # {}
    /\ backupSuffix(files.opened.before.name) \in DOMAIN files.opened.backup

\* the backup went to the path with the time, a directory being in the way
StoreBackedUpUnderTime ==
    /\ OpenedOnDeviceChange
    /\ files.opened.before.things # {}
    /\ backupSuffix(files.opened.before.name) \in files.dirs

\* C38: after a delete command on path / was answered with the deleted
\* response and its deleted event was published, the thing is no longer in
\* the storage: GetThing fails for its id, the id is not among the thing
\* ids, and a retrieve of the thing is answered with things:thing.notfound
DeletedThingIsGone ==
    (/\ last.form = "command" /\ last.kind = "deleteThing"
     /\ last.response = "success" /\ last.event)
        => /\ ~GetThingSucceeds(db, last.thing)
           /\ last.thing \notin db.ids
           /\ retrieveThing(db, Cmd("retrieveThing", TRUE), last.thing).code = "thing.notfound"

\* goroutines p and q have answered modify commands for different
\* properties of one feature with success
ModifiedBoth(p, q) ==
    /\ p # q
    /\ \A r \in {p, q} :
          /\ handling[r].pc = "done" /\ handling[r].kind = "modifyProperty"
          /\ handling[r].response = "success"
    /\ handling[p].t = handling[q].t /\ handling[p].f = handling[q].f
    /\ (handling[p].key # handling[q].key \/ handling[p].desired # handling[q].desired)

\* the stored feature holds the value of the command of goroutine p
HoldsValueOf(p) ==
    LET h == handling[p]
    IN  h.key \in Part(db.feat[h.t][h.f], h.desired).keys

\* C39: when two modify commands for different property pointers of one
\* feature, handled concurrently, have both been answered with success, the
\* stored feature holds the values of both
BothPropertiesStored ==
    \A p, q \in Procs : ModifiedBoth(p, q) => (HoldsValueOf(p) /\ HoldsValueOf(q))

\* the same for two commands handled one after the other
BothPropertiesStoredInTurn ==
    \A p, q \in Procs :
        (ModifiedBoth(p, q) /\ handling[q].after) => (HoldsValueOf(p) /\ HoldsValueOf(q))

\* two modify commands for different properties were handled in turn
PropertiesModifiedInTurn ==
    \E p, q \in Procs :
        /\ ModifiedBoth(p, q) /\ handling[q].after
        /\ handling[p].desired = handling[q].desired

\* every goroutine has answered a create command for the same thing, which
\* was not stored when the commands came
AllCreated ==
    /\ \A p \in Procs : handling[p].pc = "done" /\ handling[p].kind = "createThing"
    /\ \A p, q \in Procs : handling[p].t = handling[q].t
    /\ \A p \in Procs : ~start.thing[handling[p].t].present

\* goroutine p was answered with the created thing, every other one with
\* things:thing.conflict, and the stored thing is that of p
CreatedBy(p) ==
    /\ handling[p].response = "success"
    /\ \A q \in Procs \ {p} :
          handling[q].response = "error" /\ handling[q].code = "thing.conflict"
    /\ db.thing[handling[p].t] = ThingData(handling[p].attrs)

\* C40: of the create commands for one unknown thing id that are handled
\* concurrently, exactly one is answered with the created thing and every
\* other one with things:thing.conflict, and the stored thing is the
\* payload of the one that was answered with the created thing
OneCreateWins ==
    AllCreated => \E p \in Procs : CreatedBy(p)

\* the same for create commands handled one after the other
OneCreateWinsInTurn ==
    (AllCreated /\ \E p \in Procs : handling[p].after) => \E p \in Procs : CreatedBy(p)

\* two create commands with different payloads were handled in turn
CreatedInTurn ==
    /\ AllCreated /\ \E p \in Procs : handling[p].after
    /\ \E p, q \in Procs : handling[p].attrs # handling[q].attrs

====
